---- MODULE Spec2Model ----
(***************************************************************************)
(* Booking backends of BOOKING-API-DEMO as a state machine.                *)
(*                                                                         *)
(*   src/code.gs            main backend: getAvailability, createBooking,  *)
(*                          createAdminBlock, getAllBookings, deleteBooking *)
(*   src/unnamed/part_003   simple backend: book, admin_check, get_events, *)
(*                          block_slot, unblock_slot                       *)
(*   src/unnamed/part_001   services backend: the service list kept in a   *)
(*                          spreadsheet, its pages and its admin actions   *)
(*                                                                         *)
(* Time is a count of milliseconds on the script's local timeline, as in   *)
(* JavaScript Date values.  The calendar store (CalendarApp) is the        *)
(* platform's; every call the handlers make to it is one atomic step, and  *)
(* a handler with a read followed by a write is two steps, so that         *)
(* concurrent executions of the web app interleave between them.           *)
(***************************************************************************)
EXTENDS Integers, Sequences, FiniteSets, TLC

VARIABLES
    calendar,   \* calendar id -> set of events held by the calendar store
    nextId,     \* the id the store gives to the next created event
    sheet,      \* the rows of the 'Services' sheet, top to bottom
    bookingDuration, \* the BOOKING_DURATION setting of the deployed script
    now,        \* the current time (new Date())
    pc,         \* per execution: "idle", "create", "delete", "done"
    req,        \* per execution: the handler and the request it serves
    local,      \* per execution: what the handler read (existingEvents, event)
    result      \* per execution: the response returned

vars == <<calendar, nextId, sheet, bookingDuration, now, pc, req, local, result>>

(***************************************************************************)
(* Program constants                                                       *)
(***************************************************************************)
CALENDAR_ID == "6fbd3ad40e7d@group.calendar.google.com"
SIMPLE_CALENDAR_ID == "d3988770ac40@group.calendar.google.com"
ADMIN_EMAIL == "weboutright@gmail.com"
BOOKING_DURATION == 60
MS_PER_MINUTE == 60000
MS_PER_HOUR == 60 * MS_PER_MINUTE
MS_PER_DAY == 24 * MS_PER_HOUR
FIRST_HOUR == 9
LAST_HOUR == 17

CalendarIds == {CALENDAR_ID, SIMPLE_CALENDAR_ID}

(***************************************************************************)
(* Bounds of the model                                                     *)
(***************************************************************************)
MaxEvents == 2      \* events the store creates in one behaviour
\* Concurrent executions of the web app.
Procs == {1, 2}

(***************************************************************************)
(* Values                                                                  *)
(***************************************************************************)
\* An optional request field: <<>> when absent (undefined), <<v>> when given.
None == <<>>
Some(v) == <<v>>
Given(f) == f /= <<>>
Val(f) == f[1]

\* The elements of an array.
Range(seq) == {seq[i] : i \in DOMAIN seq}

\* A date-time as the request writes it: a calendar day and a wall-clock time.
At(day, hh, mm) == [day |-> day, hh |-> hh, mm |-> mm]

\* new Date(string): the instant of a written date-time.
ParseDate(dt) == dt.day * MS_PER_DAY + dt.hh * MS_PER_HOUR + dt.mm * MS_PER_MINUTE

\* date.setHours(h, 0, 0, 0): the same local day at h:00:00.000.
SetHours(t, h) == (t - (t % MS_PER_DAY)) + h * MS_PER_HOUR

\* date.setHours(23, 59, 59, 999)
EndOfDay(t) == (t - (t % MS_PER_DAY)) + (MS_PER_DAY - 1)

\* formatTime: "h:mm AM/PM" of an instant, as <<hour12, minute, meridiem>>.
formatTime(t) ==
    LET h24 == (t % MS_PER_DAY) \div MS_PER_HOUR
        mm  == (t % MS_PER_HOUR) \div MS_PER_MINUTE
        h12 == IF h24 % 12 = 0 THEN 12 ELSE h24 % 12
    IN  <<h12, mm, IF h24 < 12 THEN "AM" ELSE "PM">>

\* Event titles keep the prefix the handler writes apart from the free text.
Title(prefix, text) == [prefix |-> prefix, text |-> text]
StartsWithBlocked(title) == title.prefix = "BLOCKED: "

Event(id, start, end, title) ==
    [id |-> id, start |-> start, end |-> end, title |-> title]

(***************************************************************************)
(* The calendar store (platform)                                           *)
(***************************************************************************)
\* The query that returns only the events lying wholly inside the range.
getEvents_inside(events, start, end) ==
    {e \in events : start <= e.start /\ e.end <= end}

\* calendar.getEvents(start, end): the events that start during the range,
\* end during it, or encompass it.
getEvents(events, start, end) ==
    {e \in events : e.start < end /\ e.end > start}

\* The lookup that matches every event whatever its id.
getEventById_any(events, id) == events

RECURSIVE SortById(_)
\* The events of a set as an array, by ascending id.
SortById(events) ==
    IF events = {} THEN <<>>
    ELSE LET first == CHOOSE e \in events : \A f \in events : e.id <= f.id
         IN  <<first>> \o SortById(events \ {first})

Reverse(seq) == [i \in 1..Len(seq) |-> seq[Len(seq) + 1 - i]]
Rotate(seq, k) == [i \in 1..Len(seq) |-> seq[((i + k - 1) % Len(seq)) + 1]]

\* The arrays the store may return for a set of events: the order is the
\* store's choice.  The model takes the orders by id, up and down, and their
\* rotations (every order when there are at most three events).
Orders(events) ==
    LET up == SortById(events)
    IN  IF events = {} THEN {<<>>}
        ELSE {Rotate(up, k) : k \in 0..(Len(up) - 1)}
             \cup {Rotate(Reverse(up), k) : k \in 0..(Len(up) - 1)}

\* calendar.getEventById(id): the event, or null (here the empty set).
getEventById(events, id) == {e \in events : e.id = id}

(***************************************************************************)
(* src/code.gs: getAvailableSlots                                          *)
(***************************************************************************)
\* The overlap test with closed intervals: touching endpoints count.
SlotOverlap_touching(slotStart, slotEnd, eventStart, eventEnd) ==
    slotStart <= eventEnd /\ slotEnd >= eventStart

\* The overlap test that asks whether the slot starts inside the event.
SlotOverlap_startInside(slotStart, slotEnd, eventStart, eventEnd) ==
    slotStart >= eventStart /\ slotStart < eventEnd

\* code.gs:105  the overlap test of one slot against one event
SlotOverlap(slotStart, slotEnd, eventStart, eventEnd) ==
    slotStart < eventEnd /\ slotEnd > eventStart

\* The availability test that looks at customer bookings only.
isAvailable_bookingsOnly(events, slotStart, slotEnd) ==
    ~ \E i \in DOMAIN events :
        /\ events[i].title.prefix = "Booking: "
        /\ SlotOverlap(slotStart, slotEnd, events[i].start, events[i].end)

\* The availability test that looks at the first event of the array only.
isAvailable_first(events, slotStart, slotEnd) ==
    ~ (/\ events /= <<>>
       /\ SlotOverlap(slotStart, slotEnd, events[1].start, events[1].end))

\* code.gs:102-110  isAvailable = !events.some(overlap), events an array
isAvailable(events, slotStart, slotEnd) ==
    ~ \E i \in DOMAIN events :
        SlotOverlap(slotStart, slotEnd, events[i].start, events[i].end)

\* The slotInfo of a slot that runs two hours from its start.
slotInfo_twoHours(targetDate, events, hour) ==
    LET slotStart == SetHours(targetDate, hour)
        slotEnd   == SetHours(targetDate, hour + 2)
    IN  [time      |-> formatTime(slotStart),
         value     |-> slotStart,
         available |-> isAvailable(events, slotStart, slotEnd)]

\* code.gs:97-116  the slotInfo of one hour
slotInfo(targetDate, events, hour) ==
    LET slotStart == SetHours(targetDate, hour)
        slotEnd   == SetHours(targetDate, hour + 1)
    IN  [time      |-> formatTime(slotStart),
         value     |-> slotStart,
         available |-> isAvailable(events, slotStart, slotEnd)]

\* The loop bound off by one: hour < 16.
SlotHours_short == FIRST_HOUR .. (LAST_HOUR - 2)

\* code.gs:96  for (let hour = 9; hour < 17; hour++)
SlotHours == FIRST_HOUR .. (LAST_HOUR - 1)

RECURSIVE slotLoop_unshift(_, _, _, _)
\* The loop that puts each slot at the front of its list (unshift for push).
slotLoop_unshift(targetDate, events, hour, acc) ==
    IF hour \notin SlotHours THEN acc
    ELSE LET info == slotInfo(targetDate, events, hour)
         IN  slotLoop_unshift(targetDate, events, hour + 1,
                 IF info.available
                 THEN <<(<<info>> \o acc[1]), acc[2]>>
                 ELSE <<acc[1], (<<info>> \o acc[2])>>)

RECURSIVE slotLoop(_, _, _, _)
\* code.gs:96-123  the loop, from `hour` on: <<availableSlots, unavailableSlots>>
slotLoop(targetDate, events, hour, acc) ==
    IF hour \notin SlotHours THEN acc
    ELSE LET info == slotInfo(targetDate, events, hour)
         IN  slotLoop(targetDate, events, hour + 1,
                 IF info.available
                 THEN <<Append(acc[1], info), acc[2]>>
                 ELSE <<acc[1], Append(acc[2], info)>>)

computeSlots(targetDate, events) ==
    slotLoop(targetDate, events, FIRST_HOUR, <<<<>>, <<>>>>)

(***************************************************************************)
(* Requests and responses                                                  *)
(***************************************************************************)
\* The fields a request body may carry; every one may be absent.
NoData ==
    [datetime |-> None, clientName |-> None, clientEmail |-> None,
     duration |-> None, title |-> None, eventId |-> None,
     name |-> None, email |-> None, date |-> None, time |-> None,
     startTime |-> None, endTime |-> None, reason |-> None,
     dateString |-> None, startDate |-> None, endDate |-> None,
     action |-> None, service |-> None, test |-> None, rowId |-> None]

Request(handler, caller, data) ==
    [handler |-> handler, caller |-> caller, data |-> data]

NoRequest == Request("none", "", NoData)

\* What an execution returns: a ContentService JSON text, and in the
\* services backend also a plain text or an HtmlService page.
Response(success, message) ==
    [format |-> "json", success |-> success, message |-> message,
     availableSlots |-> <<>>, unavailableSlots |-> <<>>,
     eventId |-> None, bookings |-> {}, events |-> {}, services |-> <<>>]

NoResponse == Response(FALSE, "")

\* code.gs:337-344
createErrorResponse(message) == Response(FALSE, message)

\* part_003:171-182
jsonResponse(status, message) == Response(status = "success", message)

\* The handler returns: the execution holds its response until it is sent.
Finish(p, r, res) ==
    /\ pc' = [pc EXCEPT ![p] = "done"]
    /\ req' = [req EXCEPT ![p] = r]
    /\ local' = [local EXCEPT ![p] = {}]
    /\ result' = [result EXCEPT ![p] = res]
    /\ sheet' = sheet
    /\ bookingDuration' = bookingDuration

\* The handler goes on to its next store call, keeping what it read.
Continue(p, r, at, read) ==
    /\ pc' = [pc EXCEPT ![p] = at]
    /\ req' = [req EXCEPT ![p] = r]
    /\ local' = [local EXCEPT ![p] = read]
    /\ result' = result
    /\ sheet' = sheet
    /\ bookingDuration' = bookingDuration

\* Session.getActiveUser().getEmail() of the requests the model sends: the
\* configured admin, and an anonymous visitor (the web app is deployed with
\* "Execute as: Me", "Who has access: Anyone").
Callers == {ADMIN_EMAIL, ""}

(***************************************************************************)
(* src/code.gs: getAvailableSlots(dateString)                              *)
(***************************************************************************)
DateStrings == {None, Some(At(1, 0, 0)), Some(At(0, 0, 0))}

\* code.gs:71-84  the events calendar.getEvents finds between 00:00:00.000
\* and 23:59:59.999 of the day asked for (none is asked for without a date)
dayEvents(events, dateString) ==
    IF ~Given(dateString) THEN {}
    ELSE LET targetDate == ParseDate(Val(dateString))
             startOfDay == SetHours(targetDate, 0)
             endOfDay   == EndOfDay(targetDate)
         IN  getEvents(events, startOfDay, endOfDay)

\* The handler that also clears away the events of the day it has read.
getAvailableSlots_purge(p, dateString) ==
    /\ pc[p] = "idle"
    /\ UNCHANGED <<nextId, now>>
    /\ \E storeOk \in BOOLEAN :
      \E events \in Orders(dayEvents(calendar[CALENDAR_ID], dateString)) :
        LET r == Request("getAvailableSlots", "",
                         [NoData EXCEPT !.dateString = dateString])
            targetDate == ParseDate(Val(dateString))
            slots  == computeSlots(targetDate, events)
        IN  IF ~Given(dateString)
            THEN /\ calendar' = calendar
                 /\ Finish(p, r, createErrorResponse("Date parameter is required"))
            ELSE IF ~storeOk
            THEN /\ calendar' = calendar
                 /\ Finish(p, r, createErrorResponse("Failed to get availability: "))
            ELSE /\ calendar' = [calendar EXCEPT ![CALENDAR_ID] = @ \ Range(events)]
                 /\ Finish(p, r, [Response(TRUE, "") EXCEPT
                                     !.availableSlots = slots[1],
                                     !.unavailableSlots = slots[2]])

getAvailableSlots(p, dateString) ==
    /\ pc[p] = "idle"
    /\ UNCHANGED <<calendar, nextId, now>>
    /\ \E storeOk \in BOOLEAN :
      \E events \in Orders(dayEvents(calendar[CALENDAR_ID], dateString)) :
        LET r == Request("getAvailableSlots", "",
                         [NoData EXCEPT !.dateString = dateString])
            targetDate == ParseDate(Val(dateString))
            slots  == computeSlots(targetDate, events)
        IN  IF ~Given(dateString)
            THEN Finish(p, r, createErrorResponse("Date parameter is required"))
            ELSE IF ~storeOk
            THEN Finish(p, r, createErrorResponse("Failed to get availability: "))
            ELSE Finish(p, r, [Response(TRUE, "") EXCEPT
                                  !.availableSlots = slots[1],
                                  !.unavailableSlots = slots[2]])

(***************************************************************************)
(* src/code.gs: createBooking(data)                                        *)
(***************************************************************************)
BookingTimes == {At(1, 13, 0), At(1, 14, 0), At(1, 14, 30)}

BookingData ==
    {[NoData EXCEPT !.datetime = Some(dt), !.clientName = Some("Ann"),
                    !.clientEmail = Some("ann@example.com")] : dt \in BookingTimes}
    \cup {[NoData EXCEPT !.clientName = Some("Ann"),
                         !.clientEmail = Some("ann@example.com")],
          [NoData EXCEPT !.datetime = Some(At(1, 14, 0)),
                         !.clientEmail = Some("ann@example.com")],
          [NoData EXCEPT !.datetime = Some(At(1, 14, 0)),
                         !.clientName = Some("Ann")]}

\* The validation that forgets the e-mail address.
missingBookingFields_noEmail(data) ==
    ~Given(data.datetime) \/ ~Given(data.clientName)

\* code.gs:154
missingBookingFields(data) ==
    ~Given(data.datetime) \/ ~Given(data.clientName) \/ ~Given(data.clientEmail)

\* The conflict test off by one: existingEvents.length > 1.
slotTaken_two(existingEvents) == Cardinality(existingEvents) > 1

\* code.gs:165  existingEvents.length > 0
slotTaken(existingEvents) == Cardinality(existingEvents) > 0

\* The handler that, on a conflict, clears the slot before it refuses.
createBooking_evict(p, data) ==
    /\ pc[p] = "idle"
    /\ UNCHANGED <<nextId, now>>
    /\ \E storeOk \in BOOLEAN :
        LET r == Request("createBooking", "", data)
            startTime == ParseDate(Val(data.datetime))
            endTime   == startTime + bookingDuration * MS_PER_MINUTE
            existingEvents == getEvents(calendar[CALENDAR_ID], startTime, endTime)
        IN  IF missingBookingFields(data)
            THEN /\ calendar' = calendar
                 /\ Finish(p, r, createErrorResponse("Missing required fields"))
            ELSE IF ~storeOk
            THEN /\ calendar' = calendar
                 /\ Finish(p, r, createErrorResponse("Failed to create booking: "))
            ELSE IF slotTaken(existingEvents)
            THEN /\ calendar' = [calendar EXCEPT ![CALENDAR_ID] = @ \ existingEvents]
                 /\ Finish(p, r, createErrorResponse("This time slot is no longer available"))
            ELSE /\ calendar' = calendar
                 /\ Continue(p, r, "create", existingEvents)

\* The handler that takes only the starts getAvailableSlots offers: on the
\* hour, from 9:00 to 16:00.
createBooking_offeredOnly(p, data) ==
    /\ pc[p] = "idle"
    /\ UNCHANGED <<calendar, nextId, now>>
    /\ \E storeOk \in BOOLEAN :
        LET r == Request("createBooking", "", data)
            startTime == ParseDate(Val(data.datetime))
            endTime   == startTime + bookingDuration * MS_PER_MINUTE
            existingEvents == getEvents(calendar[CALENDAR_ID], startTime, endTime)
        IN  IF missingBookingFields(data)
            THEN Finish(p, r, createErrorResponse("Missing required fields"))
            ELSE IF Val(data.datetime).mm /= 0
                    \/ Val(data.datetime).hh \notin FIRST_HOUR .. (LAST_HOUR - 1)
            THEN Finish(p, r, createErrorResponse("This time slot is not offered"))
            ELSE IF ~storeOk
            THEN Finish(p, r, createErrorResponse("Failed to create booking: "))
            ELSE IF slotTaken(existingEvents)
            THEN Finish(p, r, createErrorResponse("This time slot is no longer available"))
            ELSE Continue(p, r, "create", existingEvents)

\* code.gs:150-167: validation, the read of the calendar, the conflict check
createBooking(p, data) ==
    /\ pc[p] = "idle"
    /\ UNCHANGED <<calendar, nextId, now>>
    /\ \E storeOk \in BOOLEAN :
        LET r == Request("createBooking", "", data)
            startTime == ParseDate(Val(data.datetime))
            endTime   == startTime + bookingDuration * MS_PER_MINUTE
            existingEvents == getEvents(calendar[CALENDAR_ID], startTime, endTime)
        IN  IF missingBookingFields(data)
            THEN Finish(p, r, createErrorResponse("Missing required fields"))
            ELSE IF ~storeOk
            THEN Finish(p, r, createErrorResponse("Failed to create booking: "))
            ELSE IF slotTaken(existingEvents)
            THEN Finish(p, r, createErrorResponse("This time slot is no longer available"))
            ELSE Continue(p, r, "create", existingEvents)

\* The write step with the calendar read and checked again in the same step.
createBooking_createEvent_recheck(p) ==
    /\ pc[p] = "create"
    /\ req[p].handler = "createBooking"
    /\ nextId <= MaxEvents
    /\ now' = now
    /\ LET data == req[p].data
           startTime == ParseDate(Val(data.datetime))
           endTime   == startTime + bookingDuration * MS_PER_MINUTE
           event == Event(nextId, startTime, endTime,
                          Title("Booking: ", Val(data.clientName)))
       IN  IF getEvents(calendar[CALENDAR_ID], startTime, endTime) = {}
           THEN /\ calendar' = [calendar EXCEPT ![CALENDAR_ID] = @ \cup {event}]
                /\ nextId' = nextId + 1
                /\ Finish(p, req[p],
                       [Response(TRUE, "Booking created successfully")
                           EXCEPT !.eventId = Some(event.id)])
           ELSE /\ UNCHANGED <<calendar, nextId>>
                /\ Finish(p, req[p],
                       createErrorResponse("This time slot is no longer available"))

\* The write step that takes the duration for seconds instead of minutes.
createBooking_createEvent_seconds(p) ==
    /\ pc[p] = "create"
    /\ req[p].handler = "createBooking"
    /\ nextId <= MaxEvents
    /\ now' = now
    /\ \E storeOk \in BOOLEAN :
        LET data == req[p].data
            startTime == ParseDate(Val(data.datetime))
            endTime   == startTime + bookingDuration * 1000
            event == Event(nextId, startTime, endTime,
                           Title("Booking: ", Val(data.clientName)))
        IN  IF storeOk
            THEN /\ calendar' = [calendar EXCEPT ![CALENDAR_ID] = @ \cup {event}]
                 /\ nextId' = nextId + 1
                 /\ Finish(p, req[p],
                        [Response(TRUE, "Booking created successfully")
                            EXCEPT !.eventId = Some(event.id)])
            ELSE /\ UNCHANGED <<calendar, nextId>>
                 /\ Finish(p, req[p],
                        createErrorResponse("Failed to create booking: "))

\* code.gs:169-198: calendar.createEvent and the success response
createBooking_createEvent(p) ==
    /\ pc[p] = "create"
    /\ req[p].handler = "createBooking"
    /\ nextId <= MaxEvents
    /\ now' = now
    /\ \E storeOk \in BOOLEAN :
        LET data == req[p].data
            startTime == ParseDate(Val(data.datetime))
            endTime   == startTime + bookingDuration * MS_PER_MINUTE
            event == Event(nextId, startTime, endTime,
                           Title("Booking: ", Val(data.clientName)))
        IN  IF storeOk
            THEN /\ calendar' = [calendar EXCEPT ![CALENDAR_ID] = @ \cup {event}]
                 /\ nextId' = nextId + 1
                 /\ Finish(p, req[p],
                        [Response(TRUE, "Booking created successfully")
                            EXCEPT !.eventId = Some(event.id)])
            ELSE /\ UNCHANGED <<calendar, nextId>>
                 /\ Finish(p, req[p],
                        createErrorResponse("Failed to create booking: "))

(***************************************************************************)
(* src/unnamed/part_003: bookAppointment(data)                             *)
(***************************************************************************)
AppointmentData ==
    {[NoData EXCEPT !.name = Some("Ann"), !.email = Some("ann@example.com"),
                    !.date = Some(dt.day), !.time = Some(<<dt.hh, dt.mm>>)]
        : dt \in BookingTimes}
    \cup {[NoData EXCEPT !.email = Some("ann@example.com"),
                         !.date = Some(1), !.time = Some(<<14, 0>>)],
          [NoData EXCEPT !.name = Some("Ann"), !.email = Some("ann@example.com"),
                         !.date = Some(1)],
          [NoData EXCEPT !.name = Some("Ann"),
                         !.date = Some(1), !.time = Some(<<14, 0>>)],
          [NoData EXCEPT !.name = Some("Ann"), !.email = Some("ann@example.com"),
                         !.time = Some(<<14, 0>>)]}

\* part_003:48
missingAppointmentFields(data) ==
    ~Given(data.name) \/ ~Given(data.email) \/ ~Given(data.date) \/ ~Given(data.time)

\* part_003:53  new Date(`${date}T${time}:00`)
ParseDateAndTime(date, time) == ParseDate(At(date, time[1], time[2]))

\* part_003:56  startTime <= new Date()
notInFuture(startTime, current) == startTime <= current

\* The conflict test that never finds a conflict.
hasConflicts_never(conflicts) == FALSE

\* part_003:63  conflicts.length > 0
hasConflicts(conflicts) == Cardinality(conflicts) > 0

\* part_003:45-65: validation, the future check, the read, the conflict check
bookAppointment(p, data) ==
    /\ pc[p] = "idle"
    /\ UNCHANGED <<calendar, nextId, now>>
    /\ \E storeOk \in BOOLEAN :
        LET r == Request("bookAppointment", "", data)
            startTime == ParseDateAndTime(Val(data.date), Val(data.time))
            endTime   == startTime + 60 * 60 * 1000
            conflicts == getEvents(calendar[SIMPLE_CALENDAR_ID], startTime, endTime)
        IN  IF missingAppointmentFields(data)
            THEN Finish(p, r, jsonResponse("error", "All fields required"))
            ELSE IF notInFuture(startTime, now)
            THEN Finish(p, r, jsonResponse("error", "Please select a future time"))
            ELSE IF ~storeOk
            THEN Finish(p, r, jsonResponse("error", "Booking failed: "))
            ELSE IF hasConflicts(conflicts)
            THEN Finish(p, r, jsonResponse("error", "Time slot not available"))
            ELSE Continue(p, r, "create", conflicts)

\* The write step that reports a failure after the event has been stored.
bookAppointment_createEvent_partial(p) ==
    /\ pc[p] = "create"
    /\ req[p].handler = "bookAppointment"
    /\ nextId <= MaxEvents
    /\ now' = now
    /\ \E storeOk \in BOOLEAN :
        LET data == req[p].data
            startTime == ParseDateAndTime(Val(data.date), Val(data.time))
            endTime   == startTime + 60 * 60 * 1000
            event == Event(nextId, startTime, endTime,
                           Title("Appointment: ", Val(data.name)))
        IN  /\ calendar' = [calendar EXCEPT ![SIMPLE_CALENDAR_ID] = @ \cup {event}]
            /\ nextId' = nextId + 1
            /\ IF storeOk
               THEN Finish(p, req[p], jsonResponse("success",
                        "Appointment booked! Check your email for confirmation."))
               ELSE Finish(p, req[p], jsonResponse("error", "Booking failed: "))

\* part_003:67-81: calendar.createEvent and the success response
bookAppointment_createEvent(p) ==
    /\ pc[p] = "create"
    /\ req[p].handler = "bookAppointment"
    /\ nextId <= MaxEvents
    /\ now' = now
    /\ \E storeOk \in BOOLEAN :
        LET data == req[p].data
            startTime == ParseDateAndTime(Val(data.date), Val(data.time))
            endTime   == startTime + 60 * 60 * 1000
            event == Event(nextId, startTime, endTime,
                           Title("Appointment: ", Val(data.name)))
        IN  IF storeOk
            THEN /\ calendar' = [calendar EXCEPT ![SIMPLE_CALENDAR_ID] = @ \cup {event}]
                 /\ nextId' = nextId + 1
                 /\ Finish(p, req[p], jsonResponse("success",
                        "Appointment booked! Check your email for confirmation."))
            ELSE /\ UNCHANGED <<calendar, nextId>>
                 /\ Finish(p, req[p], jsonResponse("error", "Booking failed: "))

(***************************************************************************)
(* src/code.gs: isAdminUser, createAdminBlock, getAllBookings,             *)
(* deleteBooking                                                           *)
(***************************************************************************)
\* The identity check that lets every caller through.
isAdminUser_anyone(userEmail) == TRUE

\* code.gs:318-321  Session.getActiveUser().getEmail() === ADMIN_EMAIL
isAdminUser(userEmail) == userEmail = ADMIN_EMAIL

AdminBlockData ==
    {[NoData EXCEPT !.datetime = Some(At(1, 14, 0))],
     [NoData EXCEPT !.datetime = Some(At(1, 13, 0)), !.duration = Some(120),
                    !.title = Some(Title("", "Lunch"))],
     [NoData EXCEPT !.datetime = Some(At(1, 14, 0)), !.duration = Some(-30)],
     [NoData EXCEPT !.duration = Some(30)]}

\* calendar.createEvent(title, startTime, endTime): the store refuses an
\* event that ends before it starts.  An event that ends when it starts is
\* one the store may keep; that it may also fail is the store failure of
\* the calling step.
createEventThrows(startTime, endTime) == endTime < startTime

\* The handler that refuses a block over a slot that holds an event.
createAdminBlock_checked(p, caller, data) ==
    /\ pc[p] = "idle"
    /\ now' = now
    /\ \E storeOk \in BOOLEAN :
        LET r == Request("createAdminBlock", caller, data)
            startTime == ParseDate(Val(data.datetime))
            blockDuration == IF Given(data.duration) /\ Val(data.duration) /= 0
                             THEN Val(data.duration) ELSE bookingDuration
            endTime == startTime + blockDuration * MS_PER_MINUTE
            eventTitle == IF Given(data.title) THEN Val(data.title)
                          ELSE Title("Admin Block", "")
            event == Event(nextId, startTime, endTime, eventTitle)
        IN  IF ~isAdminUser(caller)
            THEN /\ UNCHANGED <<calendar, nextId>>
                 /\ Finish(p, r, createErrorResponse("Access denied"))
            ELSE IF ~Given(data.datetime)
            THEN /\ UNCHANGED <<calendar, nextId>>
                 /\ Finish(p, r, createErrorResponse("Date and time are required"))
            ELSE IF ~storeOk \/ createEventThrows(startTime, endTime)
            THEN /\ UNCHANGED <<calendar, nextId>>
                 /\ Finish(p, r, createErrorResponse("Failed to create time block: "))
            ELSE IF slotTaken(getEvents(calendar[CALENDAR_ID], startTime, endTime))
            THEN /\ UNCHANGED <<calendar, nextId>>
                 /\ Finish(p, r, createErrorResponse("This time slot is no longer available"))
            ELSE /\ nextId <= MaxEvents
                 /\ calendar' = [calendar EXCEPT ![CALENDAR_ID] = @ \cup {event}]
                 /\ nextId' = nextId + 1
                 /\ Finish(p, r, [Response(TRUE, "Time block created successfully")
                                     EXCEPT !.eventId = Some(event.id)])

\* code.gs:203-240
createAdminBlock(p, caller, data) ==
    /\ pc[p] = "idle"
    /\ now' = now
    /\ \E storeOk \in BOOLEAN :
        LET r == Request("createAdminBlock", caller, data)
            startTime == ParseDate(Val(data.datetime))
            blockDuration == IF Given(data.duration) /\ Val(data.duration) /= 0
                             THEN Val(data.duration) ELSE bookingDuration
            endTime == startTime + blockDuration * MS_PER_MINUTE
            eventTitle == IF Given(data.title) THEN Val(data.title)
                          ELSE Title("Admin Block", "")
            event == Event(nextId, startTime, endTime, eventTitle)
        IN  IF ~isAdminUser(caller)
            THEN /\ UNCHANGED <<calendar, nextId>>
                 /\ Finish(p, r, createErrorResponse("Access denied"))
            ELSE IF ~Given(data.datetime)
            THEN /\ UNCHANGED <<calendar, nextId>>
                 /\ Finish(p, r, createErrorResponse("Date and time are required"))
            ELSE IF ~storeOk \/ createEventThrows(startTime, endTime)
            THEN /\ UNCHANGED <<calendar, nextId>>
                 /\ Finish(p, r, createErrorResponse("Failed to create time block: "))
            ELSE /\ nextId <= MaxEvents
                 /\ calendar' = [calendar EXCEPT ![CALENDAR_ID] = @ \cup {event}]
                 /\ nextId' = nextId + 1
                 /\ Finish(p, r, [Response(TRUE, "Time block created successfully")
                                     EXCEPT !.eventId = Some(event.id)])

\* code.gs:253-255  the events from now to 90 days from now
NINETY_DAYS == 90

bookingsWindow(events, current) ==
    {e \in events : e.end > current
                    /\ (e.start - current) \div MS_PER_DAY < NINETY_DAYS}

\* code.gs:245-277
getAllBookings(p, caller) ==
    /\ pc[p] = "idle"
    /\ UNCHANGED <<calendar, nextId, now>>
    /\ \E storeOk \in BOOLEAN :
        LET r == Request("getAllBookings", caller, NoData)
        IN  IF ~isAdminUser(caller)
            THEN Finish(p, r, createErrorResponse("Access denied"))
            ELSE IF ~storeOk
            THEN Finish(p, r, createErrorResponse("Failed to get bookings: "))
            ELSE Finish(p, r, [Response(TRUE, "") EXCEPT
                    !.bookings = bookingsWindow(calendar[CALENDAR_ID], now)])

EventIds == {None} \cup {Some(i) : i \in 1..MaxEvents}

\* code.gs:282-298: the identity check, validation, calendar.getEventById
deleteBooking(p, caller, eventId) ==
    /\ pc[p] = "idle"
    /\ UNCHANGED <<calendar, nextId, now>>
    /\ \E storeOk \in BOOLEAN :
        LET r == Request("deleteBooking", caller, [NoData EXCEPT !.eventId = eventId])
            event == getEventById(calendar[CALENDAR_ID], Val(eventId))
        IN  IF ~isAdminUser(caller)
            THEN Finish(p, r, createErrorResponse("Access denied"))
            ELSE IF ~Given(eventId)
            THEN Finish(p, r, createErrorResponse("Event ID is required"))
            ELSE IF ~storeOk
            THEN Finish(p, r, createErrorResponse("Failed to delete booking: "))
            ELSE IF event = {}
            THEN Finish(p, r, createErrorResponse("Event not found"))
            ELSE Continue(p, r, "delete", event)

\* code.gs:300-313: event.deleteEvent() and the success response.  When the
\* event was deleted in the meantime the store may accept the call or throw.
deleteBooking_deleteEvent(p) ==
    /\ pc[p] = "delete"
    /\ req[p].handler = "deleteBooking"
    /\ UNCHANGED <<nextId, now>>
    /\ \E storeOk \in BOOLEAN :
        IF storeOk
        THEN /\ calendar' = [calendar EXCEPT ![CALENDAR_ID] = @ \ local[p]]
             /\ Finish(p, req[p], Response(TRUE, "Booking deleted successfully"))
        ELSE /\ calendar' = calendar
             /\ Finish(p, req[p], createErrorResponse("Failed to delete booking: "))

(***************************************************************************)
(* src/unnamed/part_003: checkAdminAccess, blockTimeSlot, unblockTimeSlot  *)
(***************************************************************************)
\* part_003:85-102.  getCalendar() returns the calendar, returns null or throws.
checkAdminAccess(p, caller) ==
    /\ pc[p] = "idle"
    /\ UNCHANGED <<calendar, nextId, now>>
    /\ \E lookup \in {"calendar", "null", "throws"} :
        LET r == Request("checkAdminAccess", caller, NoData)
        IN  IF lookup = "throws"
            THEN Finish(p, r, jsonResponse("error", "Authentication failed"))
            ELSE IF lookup = "null"
            THEN Finish(p, r, jsonResponse("error", "No calendar access"))
            ELSE Finish(p, r, jsonResponse("success", "Admin access granted"))

\* part_003:109  Date.now() + 30 * 24 * 60 * 60 * 1000
THIRTY_DAYS == 30

EventsData ==
    {NoData,
     [NoData EXCEPT !.startDate = Some(At(1, 14, 0)), !.endDate = Some(At(1, 15, 0))]}

\* part_003:108-111  the events from startDate (default: now) to endDate
\* (default: 30 days from now)
eventsWindow(events, data, current) ==
    LET startDate == IF Given(data.startDate) THEN ParseDate(Val(data.startDate))
                     ELSE current
    IN  IF Given(data.endDate)
        THEN getEvents(events, startDate, ParseDate(Val(data.endDate)))
        ELSE {e \in events : e.end > startDate
                              /\ (e.start - current) \div MS_PER_DAY < THIRTY_DAYS}

\* part_003:113-120
eventList(events) ==
    {[id |-> e.id, title |-> e.title, start |-> e.start, end |-> e.end,
      isBlocked |-> StartsWithBlocked(e.title)] : e \in events}

\* part_003:105-127
getCalendarEvents(p, caller, data) ==
    /\ pc[p] = "idle"
    /\ UNCHANGED <<calendar, nextId, now>>
    /\ \E storeOk \in BOOLEAN :
        LET r == Request("getCalendarEvents", caller, data)
            events == eventsWindow(calendar[SIMPLE_CALENDAR_ID], data, now)
        IN  IF ~storeOk
            THEN Finish(p, r, jsonResponse("error", "Failed to get events"))
            ELSE Finish(p, r, [jsonResponse("success", "Events retrieved")
                                  EXCEPT !.events = eventList(events)])

BlockData ==
    {[NoData EXCEPT !.date = Some(1), !.startTime = Some(<<14, 0>>),
                    !.endTime = Some(<<15, 0>>), !.reason = Some("Holiday")],
     [NoData EXCEPT !.date = Some(1), !.startTime = Some(<<15, 0>>),
                    !.endTime = Some(<<14, 0>>)],
     [NoData EXCEPT !.date = Some(1), !.startTime = Some(<<14, 0>>),
                    !.endTime = Some(<<14, 0>>)],
     [NoData EXCEPT !.date = Some(1), !.startTime = Some(<<14, 0>>)]}

\* part_003:135-136  an absent field makes the string no date: Invalid Date
invalidBlockDates(data) ==
    ~Given(data.date) \/ ~Given(data.startTime) \/ ~Given(data.endTime)

\* part_003:130-148
blockTimeSlot(p, caller, data) ==
    /\ pc[p] = "idle"
    /\ now' = now
    /\ \E storeOk \in BOOLEAN :
        LET r == Request("blockTimeSlot", caller, data)
            start == ParseDateAndTime(Val(data.date), Val(data.startTime))
            end   == ParseDateAndTime(Val(data.date), Val(data.endTime))
            title == Title("BLOCKED: ",
                           IF Given(data.reason) THEN Val(data.reason)
                           ELSE "Unavailable")
            event == Event(nextId, start, end, title)
        IN  IF ~storeOk \/ invalidBlockDates(data) \/ createEventThrows(start, end)
            THEN /\ UNCHANGED <<calendar, nextId>>
                 /\ Finish(p, r, jsonResponse("error", "Failed to block slot"))
            ELSE /\ nextId <= MaxEvents
                 /\ calendar' = [calendar EXCEPT ![SIMPLE_CALENDAR_ID] = @ \cup {event}]
                 /\ nextId' = nextId + 1
                 /\ Finish(p, r, jsonResponse("success", "Time slot blocked"))

\* The test that lets any event found be deleted.
isBlockEvent_any(event) == event /= {}

\* part_003:158  event && event.getTitle().startsWith('BLOCKED:')
isBlockEvent(event) == event /= {} /\ \A e \in event : StartsWithBlocked(e.title)

\* part_003:151-163: calendar.getEventById and the title check
unblockTimeSlot(p, caller, eventId) ==
    /\ pc[p] = "idle"
    /\ UNCHANGED <<calendar, nextId, now>>
    /\ \E storeOk \in BOOLEAN :
        LET r == Request("unblockTimeSlot", caller, [NoData EXCEPT !.eventId = eventId])
            event == IF Given(eventId)
                     THEN getEventById(calendar[SIMPLE_CALENDAR_ID], Val(eventId))
                     ELSE {}
        IN  IF ~storeOk
            THEN Finish(p, r, jsonResponse("error", "Failed to unblock slot"))
            ELSE IF isBlockEvent(event)
            THEN Continue(p, r, "delete", event)
            ELSE Finish(p, r, jsonResponse("error", "Event not found or not blocked"))

\* part_003:159-167: event.deleteEvent() and the success response
unblockTimeSlot_deleteEvent(p) ==
    /\ pc[p] = "delete"
    /\ req[p].handler = "unblockTimeSlot"
    /\ UNCHANGED <<nextId, now>>
    /\ \E storeOk \in BOOLEAN :
        IF storeOk
        THEN /\ calendar' = [calendar EXCEPT ![SIMPLE_CALENDAR_ID] = @ \ local[p]]
             /\ Finish(p, req[p], jsonResponse("success", "Slot unblocked"))
        ELSE /\ calendar' = calendar
             /\ Finish(p, req[p], jsonResponse("error", "Failed to unblock slot"))

(***************************************************************************)
(* src/code.gs: doGet(e), doPost(e)                                        *)
(***************************************************************************)
GetActions == {"getAvailability", "getAllBookings", "test", "unknown"}

\* doGet whose switch has no default case of its own: an action it does not
\* know is served as getAvailability.
doGet_noDefault(p, caller, action, dateString) ==
    LET r == Request("doGet", caller, [NoData EXCEPT !.dateString = dateString])
    IN  CASE action = "getAllBookings" -> getAllBookings(p, caller)
          [] action = "test" ->
                /\ pc[p] = "idle"
                /\ UNCHANGED <<calendar, nextId, now>>
                /\ Finish(p, r, Response(TRUE, "Google Apps Script is working!"))
          [] OTHER -> getAvailableSlots(p, dateString)

\* code.gs:11-39  no try/catch of its own: each handler it calls has one
doGet(p, caller, action, dateString) ==
    LET r == Request("doGet", caller, [NoData EXCEPT !.dateString = dateString])
    IN  CASE action = "getAvailability" -> getAvailableSlots(p, dateString)
          [] action = "getAllBookings" -> getAllBookings(p, caller)
          [] action = "test" ->
                /\ pc[p] = "idle"
                /\ UNCHANGED <<calendar, nextId, now>>
                /\ Finish(p, r, Response(TRUE, "Google Apps Script is working!"))
          [] OTHER ->
                /\ pc[p] = "idle"
                /\ UNCHANGED <<calendar, nextId, now>>
                /\ Finish(p, r, Response(FALSE, "Invalid action: "))

\* e.postData.contents: a text JSON.parse rejects, or a JSON object.
Unparsable == [parses |-> FALSE, action |-> "", data |-> NoData]
Body(action, data) == [parses |-> TRUE, action |-> action, data |-> data]

PostBodies ==
    {Unparsable, Body("unknown", NoData)}
    \cup {Body("createBooking", data) : data \in BookingData}
    \cup {Body("createAdminBlock", data) : data \in AdminBlockData}
    \cup {Body("deleteBooking", [NoData EXCEPT !.eventId = eventId])
             : eventId \in EventIds}

\* doPost with the try/catch left out: the SyntaxError of JSON.parse escapes.
doPost_noCatch(p, caller, body) ==
    LET r == Request("doPost", caller, body.data)
    IN  IF ~body.parses
        THEN /\ pc[p] = "idle"
             /\ pc' = [pc EXCEPT ![p] = "fault"]
             /\ req' = [req EXCEPT ![p] = r]
             /\ UNCHANGED <<calendar, nextId, sheet, bookingDuration, now, local, result>>
        ELSE CASE body.action = "createBooking" -> createBooking(p, body.data)
               [] body.action = "createAdminBlock" ->
                        createAdminBlock(p, caller, body.data)
               [] body.action = "deleteBooking" ->
                        deleteBooking(p, caller, body.data.eventId)
               [] OTHER ->
                        /\ pc[p] = "idle"
                        /\ UNCHANGED <<calendar, nextId, now>>
                        /\ Finish(p, r, createErrorResponse("Invalid action"))

\* code.gs:41-60
doPost(p, caller, body) ==
    LET r == Request("doPost", caller, body.data)
    IN  IF ~body.parses
        THEN /\ pc[p] = "idle"
             /\ UNCHANGED <<calendar, nextId, now>>
             /\ Finish(p, r, createErrorResponse("Server error: "))
        ELSE CASE body.action = "createBooking" -> createBooking(p, body.data)
               [] body.action = "createAdminBlock" ->
                        createAdminBlock(p, caller, body.data)
               [] body.action = "deleteBooking" ->
                        deleteBooking(p, caller, body.data.eventId)
               [] OTHER ->
                        /\ pc[p] = "idle"
                        /\ UNCHANGED <<calendar, nextId, now>>
                        /\ Finish(p, r, createErrorResponse("Invalid action"))

(***************************************************************************)
(* src/unnamed/part_003: doPost(e), doGet(e)                               *)
(***************************************************************************)
SimpleBodies ==
    {Unparsable, Body("unknown", NoData), Body("admin_check", NoData)}
    \cup {Body("book", data) : data \in AppointmentData}
    \cup {Body("get_events", data) : data \in EventsData}
    \cup {Body("block_slot", data) : data \in BlockData}
    \cup {Body("unblock_slot", [NoData EXCEPT !.eventId = eventId])
             : eventId \in EventIds}

\* part_003:15-37
simple_doPost(p, caller, body) ==
    LET r == Request("simple_doPost", caller, body.data)
    IN  IF ~body.parses
        THEN /\ pc[p] = "idle"
             /\ UNCHANGED <<calendar, nextId, now>>
             /\ Finish(p, r, jsonResponse("error", "SyntaxError: "))
        ELSE CASE body.action = "book" -> bookAppointment(p, body.data)
               [] body.action = "admin_check" -> checkAdminAccess(p, caller)
               [] body.action = "get_events" ->
                        getCalendarEvents(p, caller, body.data)
               [] body.action = "block_slot" ->
                        blockTimeSlot(p, caller, body.data)
               [] body.action = "unblock_slot" ->
                        unblockTimeSlot(p, caller, body.data.eventId)
               [] OTHER ->
                        /\ pc[p] = "idle"
                        /\ UNCHANGED <<calendar, nextId, now>>
                        /\ Finish(p, r, jsonResponse("error", "Unknown action"))

\* part_003:40-42
simple_doGet(p, caller) ==
    /\ pc[p] = "idle"
    /\ UNCHANGED <<calendar, nextId, now>>
    /\ Finish(p, Request("simple_doGet", caller, NoData),
              jsonResponse("success", "Booking API is running"))

(***************************************************************************)
(* src/unnamed/part_001: the services kept in the 'Services' sheet.  A row *)
(* is written as its first cell (the service name), the header row as      *)
(* HEADERS and an empty row as "".                                         *)
(***************************************************************************)
HEADERS == "Name"

\* The data rows the model lets the sheet grow to.
MaxRows == 2

ServiceNames == {"Cut", "Dye"}

\* parseInt of a request parameter: a number, or NaN.
Num(n) == [nan |-> FALSE, n |-> n]
NaN == [nan |-> TRUE, n |-> 0]

RECURSIVE TrimRows(_)
\* The rows down to the last one that is not empty (sheet.getDataRange()).
TrimRows(rows) ==
    IF rows = <<>> \/ rows[Len(rows)] /= "" THEN rows
    ELSE TrimRows(SubSeq(rows, 1, Len(rows) - 1))

\* part_001:145-161  the sheet with its header row put in when it is missing
getServiceSheet(rows) ==
    IF rows = <<>> THEN <<HEADERS>>
    ELSE IF rows[1] = "" THEN [rows EXCEPT ![1] = HEADERS]
    ELSE rows

\* part_001:166-193  every row below the first, with its row number as id
getServices(rows) ==
    IF Len(rows) <= 1 THEN <<>>
    ELSE [i \in 1..(Len(rows) - 1) |-> [rowId |-> i + 1, name |-> rows[i + 1]]]

\* part_001:200-222  null (here {}) when no service has the id
getServiceById(rows, serviceId) ==
    {service \in Range(getServices(rows)) : service.rowId = serviceId}

\* part_001:872-887  sheet.appendRow(newRow)
addService(rows, name) == Append(rows, name)

\* part_001:893-916  range.setValues([updatedRow]) on row rowId
updateService(rows, rowId, name) ==
    [i \in 1..(IF rowId > Len(rows) THEN rowId ELSE Len(rows)) |->
        IF i = rowId THEN name
        ELSE IF i <= Len(rows) THEN rows[i] ELSE ""]

\* The deletion that empties the row and leaves the rows below in place.
deleteService_clear(rows, rowId) ==
    IF rowId > Len(rows) THEN rows
    ELSE TrimRows([rows EXCEPT ![rowId] = ""])

\* part_001:918-922  sheet.deleteRow(rowId): the rows below move up
deleteService(rows, rowId) ==
    IF rowId > Len(rows) THEN rows
    ELSE TrimRows(SubSeq(rows, 1, rowId - 1) \o SubSeq(rows, rowId + 1, Len(rows)))

\* The outputs of the services backend.  The flag `success` records whether
\* the handler ran to its end; the output itself carries no such field.
JsonList(services) ==
    [Response(TRUE, "") EXCEPT !.format = "list", !.services = services]
TextOutput(ok, text) == [Response(ok, text) EXCEPT !.format = "text"]
HtmlOutput(ok, title) == [Response(ok, title) EXCEPT !.format = "html"]

\* The handler returns, leaving the sheet as `rows`.
FinishService(p, r, res, rows) ==
    /\ pc' = [pc EXCEPT ![p] = "done"]
    /\ req' = [req EXCEPT ![p] = r]
    /\ result' = [result EXCEPT ![p] = res]
    /\ sheet' = rows
    /\ UNCHANGED <<calendar, nextId, bookingDuration, now, local>>

\* Where a spreadsheet call of the request throws: nowhere, in
\* SpreadsheetApp.openById, or in the call made on the sheet obtained.
FailAt == {"none", "open", "call"}

\* e.parameter of a GET request
GetParams ==
    {NoData, [NoData EXCEPT !.action = Some("getServices")],
     [NoData EXCEPT !.test = Some("service")]}
    \cup {[NoData EXCEPT !.service = Some(id)]
            : id \in {NaN, Num(0), Num(2), Num(3)}}

\* part_001:228-313  the listing page
createMainServicePage(p, r, failAt) ==
    IF failAt = "open" THEN FinishService(p, r, HtmlOutput(FALSE, "Error"), sheet)
    ELSE IF failAt = "call"
    THEN FinishService(p, r, HtmlOutput(FALSE, "Error"), getServiceSheet(sheet))
    ELSE FinishService(p, r,
            [HtmlOutput(TRUE, "Services") EXCEPT
                !.services = getServices(getServiceSheet(sheet))],
            getServiceSheet(sheet))

\* part_001:319-715  the page of one service; getServiceById returns null
\* when a spreadsheet call throws
createServicePage(p, r, serviceId, failAt) ==
    IF serviceId.nan \/ serviceId.n = 0
    THEN FinishService(p, r, HtmlOutput(TRUE, "Invalid Service"), sheet)
    ELSE IF failAt = "open"
    THEN FinishService(p, r, HtmlOutput(TRUE, "Service Not Found"), sheet)
    ELSE IF failAt = "call"
    THEN FinishService(p, r, HtmlOutput(TRUE, "Service Not Found"),
                       getServiceSheet(sheet))
    ELSE LET rows == getServiceSheet(sheet)
             service == getServiceById(rows, serviceId.n)
         IN  IF service = {}
             THEN FinishService(p, r, HtmlOutput(TRUE, "Service Not Found"), rows)
             ELSE FinishService(p, r,
                     [HtmlOutput(TRUE, "Service Details") EXCEPT
                         !.services = <<CHOOSE x \in service : TRUE>>], rows)

\* part_001:22-90
services_doGet(p, params) ==
    /\ pc[p] = "idle"
    /\ \E failAt \in FailAt :
        LET r == Request("services_doGet", "", params)
            rows == getServiceSheet(sheet)
        IN  IF params.action = Some("getServices")
            THEN IF failAt = "open"
                 THEN FinishService(p, r, HtmlOutput(FALSE, "Error"), sheet)
                 ELSE IF failAt = "call"
                 THEN FinishService(p, r, HtmlOutput(FALSE, "Error"), rows)
                 ELSE FinishService(p, r, JsonList(getServices(rows)), rows)
            ELSE IF Given(params.service)
            THEN IF Val(params.service).nan
                 THEN createMainServicePage(p, r, failAt)
                 ELSE createServicePage(p, r, Val(params.service), failAt)
            ELSE IF params.test = Some("service")
            THEN IF failAt = "open"
                 THEN FinishService(p, r, HtmlOutput(FALSE, "Error"), sheet)
                 ELSE IF failAt = "call"
                 THEN FinishService(p, r, HtmlOutput(FALSE, "Error"), rows)
                 ELSE IF Len(getServices(rows)) > 0
                 THEN \E second \in {"none", "call"} :
                        createServicePage(p, r,
                            Num(getServices(rows)[1].rowId), second)
                 ELSE FinishService(p, r,
                          HtmlOutput(TRUE, "No services available for testing"),
                          rows)
            ELSE createMainServicePage(p, r, failAt)

\* e.parameter of a POST request
PostParams ==
    {[NoData EXCEPT !.action = Some("unknown")]}
    \cup {[NoData EXCEPT !.action = Some("addService"), !.name = Some(name)]
            : name \in ServiceNames}
    \cup {[NoData EXCEPT !.action = Some("updateService"), !.name = Some(name),
                         !.rowId = Some(rowId)]
            : name \in ServiceNames,
              rowId \in {NaN} \cup {Num(i) : i \in 0..(MaxRows + 1)}}
    \cup {[NoData EXCEPT !.action = Some("deleteService"), !.rowId = Some(rowId)]
            : rowId \in {NaN} \cup {Num(i) : i \in 0..(MaxRows + 1)}}

\* getRange / deleteRow reject a row number that is NaN or below 1.
badRow(rowId) == rowId.nan \/ rowId.n < 1

\* part_001:92-138
services_doPost(p, params) ==
    /\ pc[p] = "idle"
    /\ \E failAt \in FailAt :
        LET r == Request("services_doPost", "", params)
            rows == getServiceSheet(sheet)
            action == Val(params.action)
            rowId == Val(params.rowId)
            name == Val(params.name)
        IN  IF action \notin {"addService", "updateService", "deleteService"}
            THEN FinishService(p, r,
                    TextOutput(FALSE, "Error: Unknown action: "), sheet)
            ELSE IF failAt = "open"
            THEN FinishService(p, r, TextOutput(FALSE, "Error: "), sheet)
            ELSE IF failAt = "call" \/ (action /= "addService" /\ badRow(rowId))
            THEN FinishService(p, r, TextOutput(FALSE, "Error: "), rows)
            ELSE CASE action = "addService" ->
                        /\ Len(rows) <= MaxRows
                        /\ FinishService(p, r,
                               TextOutput(TRUE, "Service added successfully!"),
                               addService(rows, name))
                   [] action = "updateService" ->
                        FinishService(p, r,
                            TextOutput(TRUE, "Service updated successfully!"),
                            updateService(rows, rowId.n, name))
                   [] action = "deleteService" ->
                        FinishService(p, r,
                            TextOutput(TRUE, "Service deleted successfully!"),
                            deleteService(rows, rowId.n))

(***************************************************************************)
(* The environment                                                         *)
(***************************************************************************)
\* The instants new Date() takes in the model, in order.
Clock == <<ParseDate(At(1, 12, 0)), ParseDate(At(1, 14, 0))>>

\* Time passes.
Tick ==
    /\ \E i \in 1..(Len(Clock) - 1) : now = Clock[i] /\ now' = Clock[i + 1]
    /\ UNCHANGED <<calendar, nextId, sheet, bookingDuration, pc, req, local, result>>

\* The response is sent and the execution ends.
Return(p) ==
    /\ pc[p] = "done"
    /\ pc' = [pc EXCEPT ![p] = "idle"]
    /\ req' = [req EXCEPT ![p] = NoRequest]
    /\ result' = [result EXCEPT ![p] = NoResponse]
    /\ UNCHANGED <<calendar, nextId, sheet, bookingDuration, now, local>>

(***************************************************************************)
(* The system                                                              *)
(***************************************************************************)
Init ==
    /\ calendar = [c \in CalendarIds |-> {}]
    /\ nextId = 1
    /\ sheet = <<>>
    /\ bookingDuration = BOOKING_DURATION
    /\ now = Clock[1]
    /\ pc = [p \in Procs |-> "idle"]
    /\ req = [p \in Procs |-> NoRequest]
    /\ local = [p \in Procs |-> {}]
    /\ result = [p \in Procs |-> NoResponse]

Next ==
    \/ Tick
    \/ \E p \in Procs :
        \/ Return(p)
        \/ \E dateString \in DateStrings : getAvailableSlots(p, dateString)
        \/ \E data \in BookingData : createBooking(p, data)
        \/ createBooking_createEvent(p)
        \/ \E caller \in Callers, data \in AdminBlockData :
                createAdminBlock(p, caller, data)
        \/ \E caller \in Callers : getAllBookings(p, caller)
        \/ \E caller \in Callers, eventId \in EventIds :
                deleteBooking(p, caller, eventId)
        \/ deleteBooking_deleteEvent(p)
        \/ \E data \in AppointmentData : bookAppointment(p, data)
        \/ bookAppointment_createEvent(p)
        \/ \E caller \in Callers : checkAdminAccess(p, caller)
        \/ \E caller \in Callers, data \in EventsData :
                getCalendarEvents(p, caller, data)
        \/ \E caller \in Callers, data \in BlockData : blockTimeSlot(p, caller, data)
        \/ \E caller \in Callers, eventId \in EventIds :
                unblockTimeSlot(p, caller, eventId)
        \/ unblockTimeSlot_deleteEvent(p)

Spec == Init /\ [][Next]_vars

(***************************************************************************)
(* The deployments taken one at a time.  The two scripts are separate web  *)
(* apps with separate calendars; neither reads or writes the other's.      *)
(***************************************************************************)
\* The main backend (src/code.gs).
NextMain ==
    \/ Tick
    \/ \E p \in Procs :
        \/ Return(p)
        \/ \E dateString \in DateStrings : getAvailableSlots(p, dateString)
        \/ \E data \in BookingData : createBooking(p, data)
        \/ createBooking_createEvent(p)
        \/ \E caller \in Callers, data \in AdminBlockData :
                createAdminBlock(p, caller, data)
        \/ \E caller \in Callers : getAllBookings(p, caller)
        \/ \E caller \in Callers, eventId \in EventIds :
                deleteBooking(p, caller, eventId)
        \/ deleteBooking_deleteEvent(p)

SpecMain == Init /\ [][NextMain]_vars

\* The simple backend (src/unnamed/part_003): the handlers that book, block,
\* unblock and check access, served concurrently.  get_events, which only
\* reads, is served in NextSerial and NextEntry.
NextSimple ==
    \/ Tick
    \/ \E p \in Procs :
        \/ Return(p)
        \/ \E data \in AppointmentData : bookAppointment(p, data)
        \/ bookAppointment_createEvent(p)
        \/ \E caller \in Callers : checkAdminAccess(p, caller)
        \/ \E caller \in Callers, data \in BlockData : blockTimeSlot(p, caller, data)
        \/ \E caller \in Callers, eventId \in EventIds :
                unblockTimeSlot(p, caller, eventId)
        \/ unblockTimeSlot_deleteEvent(p)

SpecSimple == Init /\ [][NextSimple]_vars

\* The two booking entry points, served concurrently.
NextBooking ==
    \/ Tick
    \/ \E p \in Procs :
        \/ Return(p)
        \/ \E data \in BookingData : createBooking(p, data)
        \/ createBooking_createEvent(p)
        \/ \E data \in AppointmentData : bookAppointment(p, data)
        \/ bookAppointment_createEvent(p)

SpecBooking == Init /\ [][NextBooking]_vars

(***************************************************************************)
(* getAvailableSlots as a function of the date and the calendar: every     *)
(* calendar drawn from a set of events of the kinds the handlers create.   *)
(***************************************************************************)
Interval(id, from, to) ==
    Event(id, ParseDate(from), ParseDate(to), Title("Booking: ", "Ann"))

SlotEvents ==
    {Interval(1, At(1, 10, 30), At(1, 10, 45)),
     Interval(2, At(1, 9, 0),   At(1, 10, 0)),
     Interval(3, At(1, 11, 0),  At(1, 12, 0)),
     Interval(4, At(1, 14, 0),  At(1, 15, 0)),
     Interval(5, At(1, 16, 30), At(1, 17, 30)),
     Interval(6, At(0, 10, 0),  At(0, 11, 0)),
     Interval(7, At(0, 23, 0),  At(1, 9, 30)),
     Interval(8, At(1, 17, 0),  At(1, 18, 0))}

InitSlots ==
    /\ calendar \in {[c \in CalendarIds |-> IF c = CALENDAR_ID THEN es ELSE {}]
                        : es \in SUBSET SlotEvents}
    /\ nextId = Cardinality(SlotEvents) + 1
    /\ sheet = <<>>
    /\ bookingDuration = BOOKING_DURATION
    /\ now = Clock[1]
    /\ pc = [p \in Procs |-> "idle"]
    /\ req = [p \in Procs |-> NoRequest]
    /\ local = [p \in Procs |-> {}]
    /\ result = [p \in Procs |-> NoResponse]

NextSlots ==
    \E p \in Procs :
        \/ Return(p)
        \/ \E dateString \in DateStrings : getAvailableSlots(p, dateString)

SpecSlots == InitSlots /\ [][NextSlots]_vars

(***************************************************************************)
(* Every handler of both calendar scripts, the requests served one at a    *)
(* time: an execution starts only when no other one is in flight.          *)
(***************************************************************************)
NextSerial ==
    \/ Tick
    \/ \E p \in Procs :
        /\ \A q \in Procs \ {p} : pc[q] = "idle"
        /\ \/ Return(p)
           \/ \E dateString \in DateStrings : getAvailableSlots(p, dateString)
           \/ \E data \in BookingData : createBooking(p, data)
           \/ createBooking_createEvent(p)
           \/ \E caller \in Callers, data \in AdminBlockData :
                   createAdminBlock(p, caller, data)
           \/ \E caller \in Callers : getAllBookings(p, caller)
           \/ \E caller \in Callers, eventId \in EventIds :
                   deleteBooking(p, caller, eventId)
           \/ deleteBooking_deleteEvent(p)
           \/ \E data \in AppointmentData : bookAppointment(p, data)
           \/ bookAppointment_createEvent(p)
           \/ \E caller \in Callers : checkAdminAccess(p, caller)
           \/ \E caller \in Callers, data \in EventsData :
                   getCalendarEvents(p, caller, data)
           \/ \E caller \in Callers, data \in BlockData :
                   blockTimeSlot(p, caller, data)
           \/ \E caller \in Callers, eventId \in EventIds :
                   unblockTimeSlot(p, caller, eventId)
           \/ unblockTimeSlot_deleteEvent(p)

SpecSerial == Init /\ [][NextSerial]_vars

(***************************************************************************)
(* The entry points of the three web apps.  The scripts share no state     *)
(* (two calendars and a spreadsheet), so the deployments are explored one  *)
(* at a time: a script serves requests while the stores of the other two   *)
(* are empty, and one request is served after another.                     *)
(***************************************************************************)
OnlyMain == calendar[SIMPLE_CALENDAR_ID] = {} /\ sheet = <<>>
OnlySimple == calendar[CALENDAR_ID] = {} /\ sheet = <<>>
OnlyServices == \A c \in CalendarIds : calendar[c] = {}

NextEntry ==
    \/ Tick
    \/ \E p \in Procs :
        /\ \A q \in Procs \ {p} : pc[q] = "idle"
        /\ \/ Return(p)
           \/ /\ OnlyMain
              /\ \/ \E caller \in Callers, action \in GetActions,
                       dateString \in DateStrings :
                         doGet(p, caller, action, dateString)
                 \/ \E caller \in Callers, body \in PostBodies :
                         doPost(p, caller, body)
                 \/ createBooking_createEvent(p)
                 \/ deleteBooking_deleteEvent(p)
           \/ /\ OnlySimple
              /\ \/ \E caller \in Callers : simple_doGet(p, caller)
                 \/ \E caller \in Callers, body \in SimpleBodies :
                         simple_doPost(p, caller, body)
                 \/ bookAppointment_createEvent(p)
                 \/ unblockTimeSlot_deleteEvent(p)
           \/ /\ OnlyServices
              /\ \/ \E params \in GetParams : services_doGet(p, params)
                 \/ \E params \in PostParams : services_doPost(p, params)

SpecEntry == Init /\ [][NextEntry]_vars

(***************************************************************************)
(* Properties                                                              *)
(***************************************************************************)
\* The execution p has returned the availability of a day.
AnsweredSlots(p) ==
    /\ pc[p] = "done"
    /\ req[p].handler = "getAvailableSlots"
    /\ result[p].success

\* The slots of a response, of both lists.
SlotsOf(res) == Range(res.availableSlots) \cup Range(res.unavailableSlots)

\* The day a getAvailability request asks for, and the start of its h:00 slot.
DayOf(r) == Val(r.data.dateString).day
SlotStartOf(r, h) == DayOf(r) * MS_PER_DAY + h * MS_PER_HOUR

MarkedAvailable(res, slotStart) ==
    \E s \in SlotsOf(res) : s.value = slotStart /\ s.available

\* C1: for every date and every set of calendar events, the slot
\* [h:00, h+1:00), h in 9..16, is marked available if and only if no event
\* satisfies slotStart < eventEnd /\ slotEnd > eventStart.
C1_AvailableIffNoOverlap ==
    \A p \in Procs : AnsweredSlots(p) =>
        \A h \in 9..16 :
            MarkedAvailable(result[p], SlotStartOf(req[p], h))
            <=> ~ \E e \in calendar[CALENDAR_ID] :
                    /\ SlotStartOf(req[p], h) < e.end
                    /\ SlotStartOf(req[p], h + 1) > e.start

\* C1 witness: the only event near the 10:00 slot lies strictly inside it
\* (10:30-10:45) and the slot is returned as unavailable.
C1_Witness ==
    \E p \in Procs :
        /\ AnsweredSlots(p)
        /\ DayOf(req[p]) = 1
        /\ calendar[CALENDAR_ID] = {Interval(1, At(1, 10, 30), At(1, 10, 45))}
        /\ \E s \in Range(result[p].unavailableSlots) :
                s.value = ParseDate(At(1, 10, 0)) /\ ~s.available

\* The events of the calendar that fall on a day.
EventsOfDay(day) ==
    {e \in calendar[CALENDAR_ID] :
        e.start < (day + 1) * MS_PER_DAY /\ e.end > day * MS_PER_DAY}

\* C7: touching endpoints are not an overlap: the slot [10:00, 11:00) is
\* available when every event of the day ends exactly at 10:00 or starts
\* exactly at 11:00.
C7_TouchingIsFree ==
    \A p \in Procs :
        (/\ AnsweredSlots(p)
         /\ \A e \in EventsOfDay(DayOf(req[p])) :
                \/ e.end = SlotStartOf(req[p], 10)
                \/ e.start = SlotStartOf(req[p], 11))
        => \E s \in Range(result[p].availableSlots) :
                s.value = SlotStartOf(req[p], 10) /\ s.available

\* C7 witness: one event ends at 10:00, another starts at 11:00, and the
\* 10:00 slot is returned as available.
C7_Witness ==
    \E p \in Procs :
        /\ AnsweredSlots(p)
        /\ DayOf(req[p]) = 1
        /\ EventsOfDay(1) = {Interval(2, At(1, 9, 0), At(1, 10, 0)),
                             Interval(3, At(1, 11, 0), At(1, 12, 0))}
        /\ MarkedAvailable(result[p], ParseDate(At(1, 10, 0)))

\* How many entries of a list of slots start at t.
Occurrences(seq, t) == Cardinality({i \in DOMAIN seq : seq[i].value = t})

\* C9: the response holds exactly 8 slots, one for each start hour 9..16,
\* each in exactly one of the two lists, flagged available exactly when it
\* is in availableSlots.
C9_EightSlotsPartitioned ==
    \A p \in Procs : AnsweredSlots(p) =>
        LET avail == result[p].availableSlots
            unavail == result[p].unavailableSlots
        IN  /\ Len(avail) + Len(unavail) = 8
            /\ \A h \in 9..16 :
                    Occurrences(avail, SlotStartOf(req[p], h))
                    + Occurrences(unavail, SlotStartOf(req[p], h)) = 1
            /\ \A i \in DOMAIN avail : avail[i].available
            /\ \A i \in DOMAIN unavail : ~unavail[i].available

\* C9 witness: a response with slots in both lists.
C9_Witness ==
    \E p \in Procs :
        /\ AnsweredSlots(p)
        /\ Len(result[p].availableSlots) = 5
        /\ Len(result[p].unavailableSlots) = 3

(***************************************************************************)
(* Properties of the booking entry points                                  *)
(***************************************************************************)
BookingHandlers == {"createBooking", "bookAppointment"}

\* The calendar a handler works on.
CalendarOf(handler) ==
    IF handler \in {"bookAppointment", "checkAdminAccess", "blockTimeSlot",
                    "unblockTimeSlot"}
    THEN SIMPLE_CALENDAR_ID ELSE CALENDAR_ID

\* A booking request that carries every required field.
CompleteBooking(r) ==
    /\ r.handler \in BookingHandlers
    /\ IF r.handler = "createBooking"
       THEN Given(r.data.datetime) /\ Given(r.data.clientName)
            /\ Given(r.data.clientEmail)
       ELSE Given(r.data.name) /\ Given(r.data.email)
            /\ Given(r.data.date) /\ Given(r.data.time)

\* The interval [start, start + 60 min) a complete booking request asks for.
RequestedStart(r) ==
    IF r.handler = "createBooking"
    THEN ParseDate(Val(r.data.datetime))
    ELSE ParseDate(At(Val(r.data.date), Val(r.data.time)[1], Val(r.data.time)[2]))
RequestedEnd(r) == RequestedStart(r) + 60 * 60000

\* Half-open overlap of the requested interval with an event.
Taken(r, e) == RequestedStart(r) < e.end /\ RequestedEnd(r) > e.start

SlotTakenMessages ==
    {"This time slot is no longer available", "Time slot not available"}
StoreFailureMessages ==
    {"Failed to create booking: ", "Booking failed: ",
     "Failed to get availability: ", "Failed to create time block: ",
     "Failed to get bookings: ", "Failed to delete booking: ",
     "Failed to block slot", "Failed to unblock slot", "Authentication failed",
     "Failed to get events"}

\* C2: a booking request whose start is equal to or earlier than the
\* current time is rejected (with 'Please select a future time', a store
\* failure apart) and creates no event, whatever the calendar holds, in both
\* entry points.
C2_PastAlwaysRejected ==
    [][\A p \in Procs :
        (/\ pc[p] = "idle" /\ pc'[p] /= "idle"
         /\ CompleteBooking(req'[p])
         /\ RequestedStart(req'[p]) <= now)
        => /\ pc'[p] = "done"
           /\ ~result'[p].success
           /\ \/ result'[p].message = "Please select a future time"
              \/ result'[p].message \in StoreFailureMessages
           /\ calendar' = calendar]_vars

\* C3: a booking request whose interval overlaps, by the half-open rule, an
\* event in the calendar when the handler reads it is rejected and creates
\* no event (as slot taken, unless the future check or the store failed
\* first); a request passes the check only when it overlaps none.
C3_ConflictRejected ==
    [][\A p \in Procs :
        (/\ pc[p] = "idle" /\ pc'[p] /= "idle"
         /\ CompleteBooking(req'[p]))
        => LET r == req'[p]
               overlapping == \E e \in calendar[CalendarOf(r.handler)] : Taken(r, e)
           IN  /\ overlapping =>
                    /\ pc'[p] = "done"
                    /\ ~result'[p].success
                    /\ calendar' = calendar
                    /\ \/ result'[p].message \in SlotTakenMessages
                       \/ result'[p].message \in StoreFailureMessages
                       \/ /\ result'[p].message = "Please select a future time"
                          /\ r.handler = "bookAppointment"
                          /\ RequestedStart(r) <= now
               /\ pc'[p] = "create" => ~overlapping]_vars

\* C3 witness: a request for 14:30 was turned down as taken while the
\* calendar holds the 14:00-15:00 booking.
C3_Witness ==
    \E p \in Procs :
        /\ pc[p] = "done"
        /\ CompleteBooking(req[p])
        /\ RequestedStart(req[p]) = ParseDate(At(1, 14, 30))
        /\ result[p].message \in SlotTakenMessages
        /\ \E e \in calendar[CalendarOf(req[p].handler)] :
                e.start = ParseDate(At(1, 14, 0)) /\ Taken(req[p], e)

\* C4: nothing serialises read-check-create.  A request is checked against
\* the calendar alone, so it passes while another execution holds a passed
\* check for an overlapping interval; and once a request has passed, its
\* createEvent adds its event whatever has been written since.
C4_CheckThenCreateNotAtomic ==
    [][\A p \in Procs :
        /\ (/\ pc[p] = "idle" /\ pc'[p] /= "idle"
            /\ CompleteBooking(req'[p])
            /\ ~ \E e \in calendar[CalendarOf(req'[p].handler)] : Taken(req'[p], e)
            /\ req'[p].handler = "bookAppointment" => RequestedStart(req'[p]) > now)
           => \/ pc'[p] = "create"
              \/ result'[p].message \in StoreFailureMessages
        /\ (pc[p] = "create" /\ pc'[p] = "done")
           => LET c == CalendarOf(req[p].handler)
              IN  \/ /\ result'[p].success
                     /\ \E e \in calendar'[c] :
                            /\ e.start = RequestedStart(req[p])
                            /\ e.end = RequestedEnd(req[p])
                            /\ calendar'[c] = calendar[c] \cup {e}
                            /\ e \notin calendar[c]
                  \/ /\ result'[p].message \in StoreFailureMessages
                     /\ calendar' = calendar]_vars

\* C4 witness: two concurrent requests for overlapping intervals were both
\* accepted and the calendar holds both events.
C4_Witness ==
    \E p, q \in Procs :
        /\ p /= q
        /\ pc[p] = "done" /\ pc[q] = "done"
        /\ result[p].success /\ result[q].success
        /\ CompleteBooking(req[p]) /\ CompleteBooking(req[q])
        /\ req[p].handler = req[q].handler
        /\ \E e1, e2 \in calendar[CalendarOf(req[p].handler)] :
                /\ e1 /= e2
                /\ e1.start = RequestedStart(req[p])
                /\ e2.start = RequestedStart(req[q])
                /\ e1.start < e2.end /\ e1.end > e2.start

\* The calendar c holds exactly one event, 14:00-15:00, still to come.
OnlyTwoToThree(c) ==
    \E e \in calendar[c] :
        /\ calendar[c] = {e}
        /\ e.start = ParseDate(At(1, 14, 0))
        /\ e.end = ParseDate(At(1, 15, 0))
        /\ now < e.start

\* C8: with the calendar holding exactly one event 14:00-15:00, a request
\* for 13:00-14:00 passes the check and its event is created, and a request
\* for 14:30-15:30 is rejected as taken and creates none (store failures
\* apart).
C8_Scenario ==
    [][\A p \in Procs :
        /\ (/\ pc[p] = "idle" /\ pc'[p] /= "idle"
            /\ CompleteBooking(req'[p])
            /\ OnlyTwoToThree(CalendarOf(req'[p].handler)))
           => /\ RequestedStart(req'[p]) = ParseDate(At(1, 13, 0))
                 => \/ pc'[p] = "create"
                    \/ result'[p].message \in StoreFailureMessages
              /\ RequestedStart(req'[p]) = ParseDate(At(1, 14, 30))
                 => /\ pc'[p] = "done"
                    /\ ~result'[p].success
                    /\ calendar' = calendar
                    /\ \/ result'[p].message \in SlotTakenMessages
                       \/ result'[p].message \in StoreFailureMessages
        /\ (/\ pc[p] = "create" /\ pc'[p] = "done"
            /\ RequestedStart(req[p]) = ParseDate(At(1, 13, 0))
            /\ result'[p].message \notin StoreFailureMessages)
           => /\ result'[p].success
              /\ \E e \in calendar'[CalendarOf(req[p].handler)] :
                    /\ e \notin calendar[CalendarOf(req[p].handler)]
                    /\ e.start = ParseDate(At(1, 13, 0))
                    /\ e.end = ParseDate(At(1, 14, 0))]_vars

\* C8 witness: the calendar held the 14:00-15:00 event first and the
\* request for 13:00 was accepted and its event created after it.
C8_Witness ==
    \E p \in Procs :
        /\ pc[p] = "done"
        /\ CompleteBooking(req[p])
        /\ result[p].success
        /\ RequestedStart(req[p]) = ParseDate(At(1, 13, 0))
        /\ \E e1, e2 \in calendar[CalendarOf(req[p].handler)] :
                /\ calendar[CalendarOf(req[p].handler)] = {e1, e2}
                /\ e1.id < e2.id
                /\ e1.start = ParseDate(At(1, 14, 0))
                /\ e2.start = ParseDate(At(1, 13, 0))

(***************************************************************************)
(* Properties of the admin operations                                      *)
(***************************************************************************)
AdminHandlers == {"createAdminBlock", "getAllBookings", "deleteBooking"}

\* C5: createAdminBlock, getAllBookings and deleteBooking called by an
\* identity other than the configured admin return 'Access denied' and
\* leave the calendar unchanged, whatever the payload.
C5_AdminGate ==
    [][\A p \in Procs :
        (/\ pc[p] = "idle" /\ pc'[p] /= "idle"
         /\ req'[p].handler \in AdminHandlers
         /\ req'[p].caller /= "weboutright@gmail.com")
        => /\ pc'[p] = "done"
           /\ result'[p] = createErrorResponse("Access denied")
           /\ calendar' = calendar
           /\ nextId' = nextId]_vars

\* C5 witness: a visitor asked to delete an event that exists, was denied,
\* and the event is still there.
C5_Witness ==
    \E p \in Procs :
        /\ pc[p] = "done"
        /\ req[p].handler = "deleteBooking"
        /\ req[p].caller /= "weboutright@gmail.com"
        /\ result[p].message = "Access denied"
        /\ Given(req[p].data.eventId)
        /\ \E e \in calendar[CALENDAR_ID] : e.id = Val(req[p].data.eventId)

SimpleAdminHandlers == {"blockTimeSlot", "unblockTimeSlot", "checkAdminAccess"}

\* C6: a caller who is not the admin / calendar owner never causes a block
\* event to be created or deleted, and is never told 'Admin access granted'.
C6_SimpleAdminGate ==
    [][\A p \in Procs :
        (/\ pc'[p] /= pc[p] /\ pc'[p] /= "idle"
         /\ req'[p].handler \in SimpleAdminHandlers
         /\ req'[p].caller /= "weboutright@gmail.com")
        => /\ calendar' = calendar
           /\ result'[p].message /= "Admin access granted"]_vars

\* C10: a getAvailability response reports a slot unavailable exactly when
\* an event in the calendar at that moment overlaps it, whatever bookings,
\* blocks and deletions came before.
C10_AvailabilityIsFresh ==
    [][\A p \in Procs :
        (/\ pc[p] = "idle" /\ pc'[p] = "done"
         /\ req'[p].handler = "getAvailableSlots"
         /\ result'[p].success)
        => \A h \in 9..16 :
              (\E s \in Range(result'[p].unavailableSlots) :
                    s.value = SlotStartOf(req'[p], h))
              <=> \E e \in calendar[CALENDAR_ID] :
                    /\ e.start < SlotStartOf(req'[p], h + 1)
                    /\ e.end > SlotStartOf(req'[p], h)]_vars

\* C10 witness: a booking and a block were created, the booking was deleted,
\* and the response shows the block's slots taken and the booking's free.
C10_Witness ==
    \E p \in Procs :
        /\ AnsweredSlots(p)
        /\ DayOf(req[p]) = 1
        /\ nextId = 3
        /\ \E e \in calendar[CALENDAR_ID] :
                /\ calendar[CALENDAR_ID] = {e}
                /\ e.title.prefix = "Admin Block"
                /\ e.start = ParseDate(At(1, 14, 0))
        /\ \E s \in Range(result[p].unavailableSlots) :
                s.value = ParseDate(At(1, 14, 0))
        /\ \E s \in Range(result[p].availableSlots) :
                s.value = ParseDate(At(1, 13, 0))

\* A request that lacks a field its handler requires.
MissingField(r) ==
    \/ /\ r.handler = "createBooking"
       /\ \/ r.data.datetime = None
          \/ r.data.clientName = None
          \/ r.data.clientEmail = None
    \/ /\ r.handler = "bookAppointment"
       /\ \/ r.data.name = None
          \/ r.data.email = None
          \/ r.data.date = None
          \/ r.data.time = None
    \/ /\ r.handler = "getAvailableSlots"
       /\ r.data.dateString = None
    \/ /\ r.handler = "deleteBooking"
       /\ r.data.eventId = None

\* What a handler answers before it has made any store call.
RejectionMessages ==
    {"Missing required fields", "All fields required",
     "Date parameter is required", "Event ID is required", "Access denied"}

\* C11: a booking request missing a required field, a getAvailability
\* request without a date and a deleteBooking request without an event id
\* are answered at once with an error, and both calendars are left exactly
\* as they were.
C11_ValidationNoEffect ==
    [][\A p \in Procs :
        (pc[p] = "idle" /\ pc'[p] /= "idle" /\ MissingField(req'[p]))
        => /\ pc'[p] = "done"
           /\ ~result'[p].success
           /\ result'[p].message \in RejectionMessages
           /\ calendar' = calendar
           /\ nextId' = nextId]_vars

\* C11 witness: with a booking in the calendar, a createBooking request
\* without clientEmail has been answered 'Missing required fields'.
C11_Witness ==
    \E p \in Procs :
        /\ pc[p] = "done"
        /\ req[p].handler = "createBooking"
        /\ req[p].data.clientEmail = None
        /\ req[p].data.clientName /= None /\ req[p].data.datetime /= None
        /\ result[p].message = "Missing required fields"
        /\ calendar[CALENDAR_ID] /= {}

\* C12: a request whose store call fails ends there with a failure result,
\* leaving both calendars as they were; a write step always ends its request
\* (one write attempt at most), and every change of a calendar belongs to a
\* request that ends with success.
C12_StoreFailureNoEffect ==
    [][/\ \A p \in Procs :
            /\ (/\ pc[p] /= "done" /\ pc'[p] = "done"
                /\ result'[p].message \in StoreFailureMessages)
               => /\ ~result'[p].success
                  /\ calendar' = calendar
                  /\ nextId' = nextId
            /\ (pc[p] \in {"create", "delete"} /\ pc'[p] /= pc[p])
               => pc'[p] = "done"
       /\ calendar' /= calendar
            => \E p \in Procs :
                  pc[p] /= "done" /\ pc'[p] = "done" /\ result'[p].success]_vars

\* C12 witness: a store call of a bookAppointment request for a future time
\* failed, the request ended with 'Booking failed: ' and the calendar holds
\* no event for it.
C12_Witness ==
    \E p \in Procs :
        /\ pc[p] = "done"
        /\ req[p].handler = "bookAppointment"
        /\ result[p].message = "Booking failed: "
        /\ now < ParseDateAndTime(Val(req[p].data.date), Val(req[p].data.time))
        /\ calendar[SIMPLE_CALENDAR_ID] = {}

ServiceEntries == {"services_doGet", "services_doPost"}

\* C13 as stated: every operation ends by returning a structured
\* success/failure result (a JSON object carrying a success or status
\* flag), and no failure escapes as an uncaught fault.
C13_StructuredResult ==
    \A p \in Procs :
        /\ pc[p] /= "fault"
        /\ pc[p] = "done" => result[p].format = "json"

\* C13 amended: no failure raised while parsing, checking identity or
\* calling a store escapes doGet or doPost of any backend, and every request
\* ends with a response: a JSON object with a success/status flag from the
\* two calendar backends, and from the services backend a plain text
\* ('Error: ...' on failure), a JSON array or an HTML page.
C13_NoUncaughtFault ==
    \A p \in Procs :
        /\ pc[p] \in {"idle", "create", "delete", "done"}
        /\ pc[p] = "done" =>
            /\ req[p].handler \notin ServiceEntries => result[p].format = "json"
            /\ req[p].handler = "services_doPost" => result[p].format = "text"
            /\ req[p].handler = "services_doGet"
                    => result[p].format \in {"list", "html"}
            /\ ~result[p].success => result[p].message /= ""

\* C13 witness: a POST body that JSON.parse rejects was answered by the
\* main backend with 'Server error: '.
C13_Witness ==
    \E p \in Procs :
        /\ pc[p] = "done"
        /\ req[p].handler = "doPost"
        /\ result[p].format = "json"
        /\ ~result[p].success
        /\ result[p].message = "Server error: "

\* The events a step removes from the calendar c.
Removed(c) == calendar[c] \ calendar'[c]

\* An event made by createBooking or bookAppointment.
CustomerBooking(e) == e.title.prefix \in {"Booking: ", "Appointment: "}

\* The execution p is deleting the event e it looked up by the id it was sent.
Deleting(p, handler, e) ==
    /\ req[p].handler = handler
    /\ pc[p] = "delete" /\ pc'[p] = "done"
    /\ req[p].data.eventId = Some(e.id)

\* C14: an event leaves a calendar only in the delete step of deleteBooking
\* called by the admin with that event's id, or in the delete step of
\* unblock_slot with that event's id when its title starts with 'BLOCKED:';
\* so a customer booking is removed by deleteBooking only.  unblock_slot on
\* any other id answers with an error and deletes nothing.
C14_OnlyDeleteBookingRemoves ==
    [][/\ \A e \in Removed(CALENDAR_ID) :
            \E p \in Procs : /\ Deleting(p, "deleteBooking", e)
                             /\ req[p].caller = ADMIN_EMAIL
       /\ \A e \in Removed(SIMPLE_CALENDAR_ID) :
            /\ \E p \in Procs : Deleting(p, "unblockTimeSlot", e)
            /\ e.title.prefix = "BLOCKED: "
            /\ ~CustomerBooking(e)
       /\ \A p \in Procs :
            (/\ pc[p] = "idle" /\ pc'[p] /= "idle"
             /\ req'[p].handler = "unblockTimeSlot"
             /\ ~ \E e \in calendar[SIMPLE_CALENDAR_ID] :
                    /\ req'[p].data.eventId = Some(e.id)
                    /\ e.title.prefix = "BLOCKED: ")
            => /\ pc'[p] = "done"
               /\ ~result'[p].success
               /\ calendar' = calendar]_vars

\* C14 witness: unblock_slot was sent the id of a customer's appointment and
\* answered 'Event not found or not blocked'; the appointment is still there.
C14_Witness ==
    \E p \in Procs :
        /\ pc[p] = "done"
        /\ req[p].handler = "unblockTimeSlot"
        /\ result[p].message = "Event not found or not blocked"
        /\ \E e \in calendar[SIMPLE_CALENDAR_ID] :
                /\ req[p].data.eventId = Some(e.id)
                /\ e.title.prefix = "Appointment: "

\* The events of the main calendar that carry the id a request names.
Named(r) == {e \in calendar[CALENDAR_ID] : r.data.eventId = Some(e.id)}

\* C15: deleteBooking called by the admin with an event id answers 'Event
\* not found' and leaves the calendar unchanged when no event has that id;
\* when one has, it goes on to delete it and its delete step returns success
\* with exactly that event gone, every other event untouched (a store
\* failure apart, which is reported and changes nothing).
C15_DeleteExactlyThatEvent ==
    [][\A p \in Procs :
        /\ (/\ pc[p] = "idle" /\ pc'[p] /= "idle"
            /\ req'[p].handler = "deleteBooking"
            /\ req'[p].caller = ADMIN_EMAIL
            /\ req'[p].data.eventId /= None)
           => /\ calendar' = calendar
              /\ \/ /\ pc'[p] = "done"
                    /\ result'[p].message = "Failed to delete booking: "
                 \/ /\ Named(req'[p]) = {}
                    /\ pc'[p] = "done"
                    /\ ~result'[p].success
                    /\ result'[p].message = "Event not found"
                 \/ /\ Named(req'[p]) /= {}
                    /\ pc'[p] = "delete"
                    /\ local'[p] = Named(req'[p])
        /\ (/\ pc[p] = "delete" /\ pc'[p] /= "delete"
            /\ req[p].handler = "deleteBooking")
           => /\ pc'[p] = "done"
              /\ calendar'[SIMPLE_CALENDAR_ID] = calendar[SIMPLE_CALENDAR_ID]
              /\ \/ /\ result'[p].success
                    /\ result'[p].message = "Booking deleted successfully"
                    /\ calendar'[CALENDAR_ID] = calendar[CALENDAR_ID] \ Named(req[p])
                 \/ /\ ~result'[p].success
                    /\ result'[p].message = "Failed to delete booking: "
                    /\ calendar' = calendar]_vars

\* C15 witness: of two events the admin deleted the one with id 1; the
\* response is a success and the other event is still in the calendar.
C15_Witness ==
    \E p \in Procs :
        /\ pc[p] = "done"
        /\ req[p].handler = "deleteBooking"
        /\ req[p].data.eventId = Some(1)
        /\ result[p].message = "Booking deleted successfully"
        /\ \E e \in calendar[CALENDAR_ID] : calendar[CALENDAR_ID] = {e} /\ e.id = 2

\* C16: every event in either calendar satisfies start < end, whichever
\* handler wrote it: createBooking, bookAppointment, createAdminBlock with
\* any duration, blockTimeSlot with any startTime and endTime.
C16_StartBeforeEnd ==
    \A c \in CalendarIds : \A e \in calendar[c] : e.start < e.end

\* C17: a getAvailability request, whatever its date and whatever the
\* calendar holds, leaves the events of both calendars (and the id counter
\* and the sheet) exactly as they were.
C17_AvailabilityReadsOnly ==
    [][\A p \in Procs :
        (/\ pc[p] = "idle" /\ pc'[p] /= "idle"
         /\ req'[p].handler = "getAvailableSlots")
        => /\ pc'[p] = "done"
           /\ calendar' = calendar
           /\ nextId' = nextId
           /\ sheet' = sheet]_vars

\* C17 witness: the availability of a day with an event on it was returned
\* (one slot at least is unavailable) and the event is still in the calendar.
C17_Witness ==
    \E p \in Procs :
        /\ AnsweredSlots(p)
        /\ result[p].unavailableSlots /= <<>>
        /\ \E e \in calendar[CALENDAR_ID] :
                \E s \in Range(result[p].unavailableSlots) :
                    s.value < e.end /\ s.value + MS_PER_HOUR > e.start

\* C18: two getAvailability responses for the same date, computed from the
\* same set of calendar events, carry identical availableSlots and
\* unavailableSlots lists (same slots, same order, same flags), whatever
\* order the store returned the events in for each and whatever requests
\* were served between the two.
C18_SameDateSameAnswer ==
    \A p, q \in Procs :
        (/\ AnsweredSlots(p) /\ AnsweredSlots(q)
         /\ req[p].data.dateString = req[q].data.dateString)
        => /\ result[p].availableSlots = result[q].availableSlots
           /\ result[p].unavailableSlots = result[q].unavailableSlots

\* C18 witness: two responses for day 1 are held at once, computed from a
\* calendar with an event at 9:00 and one at 14:00 (two orders at least).
C18_Witness ==
    /\ \A p \in Procs : AnsweredSlots(p) /\ DayOf(req[p]) = 1
    /\ {e.id : e \in calendar[CALENDAR_ID]} = {2, 4}
    /\ \A p \in Procs : Len(result[p].unavailableSlots) = 2

\* The slots of a list start one after the other.
Ascending(slots) ==
    \A i, j \in DOMAIN slots : i < j => slots[i].value < slots[j].value

\* C19 as stated: the slots returned are one ordered sequence, ascending by
\* start time: reading the output (availableSlots, then unavailableSlots) a
\* slot with an earlier start never comes after one with a later start.
C19_OutputAscending ==
    \A p \in Procs : AnsweredSlots(p) =>
        Ascending(result[p].availableSlots \o result[p].unavailableSlots)

\* C19 amended: the slots are returned as two lists, availableSlots and
\* unavailableSlots, and within each list a slot with an earlier start
\* never comes after one with a later start.
C19_EachListAscending ==
    \A p \in Procs : AnsweredSlots(p) =>
        /\ Ascending(result[p].availableSlots)
        /\ Ascending(result[p].unavailableSlots)

\* C19 witness: a response with several slots in each list, the 9:00 slot
\* among the unavailable ones.
C19_Witness ==
    \E p \in Procs :
        /\ AnsweredSlots(p)
        /\ Len(result[p].availableSlots) >= 2
        /\ Len(result[p].unavailableSlots) >= 2
        /\ result[p].unavailableSlots[1].value = SlotStartOf(req[p], 9)

\* The intervals the availability computation of a response compared: the
\* eight slots of the day asked for and the events of the calendar.
IntervalsOf(r) ==
    {[start |-> SlotStartOf(r, h), end |-> SlotStartOf(r, h + 1)] : h \in 9..16}
    \cup {[start |-> e.start, end |-> e.end] : e \in calendar[CALENDAR_ID]}

\* C20: for all intervals A and B with start < end, the overlap test of the
\* availability computation answers the same for (A, B) and for (B, A); so
\* the slots a response reports unavailable are those for which the test,
\* asked from the event's side, finds an event.
C20_OverlapSymmetric ==
    \A p \in Procs : AnsweredSlots(p) =>
        /\ \A A, B \in IntervalsOf(req[p]) :
              (A.start < A.end /\ B.start < B.end)
              => (SlotOverlap(A.start, A.end, B.start, B.end)
                  <=> SlotOverlap(B.start, B.end, A.start, A.end))
        /\ \A h \in 9..16 :
              (\E s \in Range(result[p].unavailableSlots) :
                    s.value = SlotStartOf(req[p], h))
              <=> \E e \in calendar[CALENDAR_ID] :
                    SlotOverlap(e.start, e.end,
                                SlotStartOf(req[p], h), SlotStartOf(req[p], h + 1))

\* C20 witness: a response for day 1 over a calendar holding the 10:30-10:45
\* event (inside the 10:00 slot: overlap both ways) and the 11:00-12:00
\* event (touching it: no overlap either way).
C20_Witness ==
    \E p \in Procs :
        /\ AnsweredSlots(p)
        /\ DayOf(req[p]) = 1
        /\ {e.id : e \in calendar[CALENDAR_ID]} = {1, 3}
        /\ {s.value : s \in Range(result[p].unavailableSlots)}
                = {SlotStartOf(req[p], 10), SlotStartOf(req[p], 11)}

\* The events a step adds to the calendar c.
Added(c) == calendar'[c] \ calendar[c]

\* The appointment duration the README documents: 60 minutes.
SixtyMinutes == 60 * MS_PER_MINUTE

\* C21: every event createBooking or bookAppointment creates ends exactly
\* 60 minutes after it starts, and so does the block createAdminBlock
\* creates for a request that carries no duration.
C21_SixtyMinutes ==
    [][\A c \in CalendarIds : \A e \in Added(c) :
        /\ CustomerBooking(e) => e.end = e.start + SixtyMinutes
        /\ \A p \in Procs :
              (/\ pc[p] = "idle" /\ pc'[p] = "done"
               /\ req'[p].handler = "createAdminBlock"
               /\ req'[p].data.duration = None)
              => e.end = e.start + SixtyMinutes]_vars

\* C21 witness: the calendar holds a customer booking 13:00-14:00 and an
\* admin block created without a duration, 14:00-15:00.
C21_Witness ==
    /\ \E e \in calendar[CALENDAR_ID] :
            /\ e.title.prefix = "Booking: "
            /\ e.start = ParseDate(At(1, 13, 0)) /\ e.end = ParseDate(At(1, 14, 0))
    /\ \E e \in calendar[CALENDAR_ID] :
            /\ e.title.prefix = "Admin Block"
            /\ e.start = ParseDate(At(1, 14, 0)) /\ e.end = ParseDate(At(1, 15, 0))

(***************************************************************************)
(* The main backend with its settings modified.  The README lists the      *)
(* appointment duration among the settings a deployer may change in the    *)
(* script editor; the script reads BOOKING_DURATION as it stands.          *)
(***************************************************************************)
\* The values of BOOKING_DURATION the model deploys: the default, and zero.
Durations == {BOOKING_DURATION, 0}

InitConfig ==
    /\ calendar = [c \in CalendarIds |-> {}]
    /\ nextId = 1
    /\ sheet = <<>>
    /\ bookingDuration \in Durations
    /\ now = Clock[1]
    /\ pc = [p \in Procs |-> "idle"]
    /\ req = [p \in Procs |-> NoRequest]
    /\ local = [p \in Procs |-> {}]
    /\ result = [p \in Procs |-> NoResponse]

NextConfig ==
    \E p \in Procs :
        \/ Return(p)
        \/ \E dateString \in DateStrings : getAvailableSlots(p, dateString)
        \/ \E data \in BookingData : createBooking(p, data)
        \/ createBooking_createEvent(p)

SpecConfig == InitConfig /\ [][NextConfig]_vars

\* The configuration the specification calls invalid: a slot length of zero
\* or less.
InvalidConfiguration == bookingDuration <= 0

\* C22: under an invalid configuration every availability request and every
\* booking request fails with a ConfigurationError: none produces slots and
\* none is accepted.
C22_ConfigurationError ==
    InvalidConfiguration =>
        \A p \in Procs :
            (pc[p] = "done" /\ req[p].handler \in {"getAvailableSlots", "createBooking"})
            => /\ ~result[p].success
               /\ result[p].message = "ConfigurationError"

(***************************************************************************)
(* Customer bookings and their deletion only, the requests served one at a *)
(* time: no admin block is created, and a request's read, check and create *)
(* run with no other request in between.                                   *)
(***************************************************************************)
NextBookingSerial ==
    \/ Tick
    \/ \E p \in Procs :
        /\ \A q \in Procs \ {p} : pc[q] = "idle"
        /\ \/ Return(p)
           \/ \E data \in BookingData : createBooking(p, data)
           \/ createBooking_createEvent(p)
           \/ \E data \in AppointmentData : bookAppointment(p, data)
           \/ bookAppointment_createEvent(p)
           \/ \E caller \in Callers, eventId \in EventIds :
                   deleteBooking(p, caller, eventId)
           \/ deleteBooking_deleteEvent(p)

SpecBookingSerial == Init /\ [][NextBookingSerial]_vars

\* Two different events of one calendar whose intervals overlap.
Overlapping(c) ==
    \E e1, e2 \in calendar[c] :
        e1.id /= e2.id /\ SlotOverlap(e1.start, e1.end, e2.start, e2.end)

\* C23: with bookings and deletions only, each request served without
\* another one interleaved, no two events of a calendar ever overlap.
C23_SerialNoOverlap == \A c \in CalendarIds : ~Overlapping(c)

\* C23 witness: the calendar holds the bookings 13:00-14:00 and 14:00-15:00,
\* and the request for 14:30 has just been refused as taken.
C23_Witness ==
    /\ \E e1, e2 \in calendar[CALENDAR_ID] :
            /\ e1.start = ParseDate(At(1, 13, 0))
            /\ e2.start = ParseDate(At(1, 14, 0))
    /\ \E p \in Procs :
            /\ pc[p] = "done"
            /\ req[p].handler = "createBooking"
            /\ req[p].data.datetime = Some(At(1, 14, 30))
            /\ result[p].message = "This time slot is no longer available"

\* An instant on the hourly grid 9:00 .. 16:00 of its day.
OnGrid(t) ==
    /\ t % MS_PER_HOUR = 0
    /\ (t % MS_PER_DAY) \div MS_PER_HOUR \in FIRST_HOUR .. (LAST_HOUR - 1)

\* getAvailableSlots, asked now for the day of the instant s, lists the slot
\* that starts at s as available (in whatever order the store returns the
\* events of the day).
ReportedAvailable(s) ==
    LET dateString == Some(At(s \div MS_PER_DAY, 0, 0))
    IN  \A events \in Orders(dayEvents(calendar[CALENDAR_ID], dateString)) :
            \E slot \in Range(computeSlots(ParseDate(Val(dateString)), events)[1]) :
                slot.value = s

\* The execution p starts a complete createBooking request whose store query
\* is answered.
GuardChecked(p) ==
    /\ pc[p] = "idle" /\ pc'[p] \in {"create", "done"}
    /\ req'[p].handler = "createBooking"
    /\ CompleteBooking(req'[p])
    /\ pc'[p] = "done" => result'[p].message \notin StoreFailureMessages

\* C24: on one calendar state, for a start s on the 9..16 hourly grid, the
\* conflict check of createBooking passes for s if and only if
\* getAvailableSlots reports the slot at s as available.
C24_GuardAgreesWithAvailability ==
    [][\A p \in Procs :
        (GuardChecked(p) /\ OnGrid(RequestedStart(req'[p])))
        => (pc'[p] = "create" <=> ReportedAvailable(RequestedStart(req'[p])))]_vars

\* C24 witness: the calendar holds an event 14:00-15:00 and a booking for
\* 13:00, whose slot touches it, has passed the conflict check.
C24_Witness ==
    /\ \E e \in calendar[CALENDAR_ID] :
            e.start = ParseDate(At(1, 14, 0)) /\ e.end = ParseDate(At(1, 15, 0))
    /\ \E p \in Procs :
            /\ pc[p] = "create"
            /\ req[p].handler = "createBooking"
            /\ req[p].data.datetime = Some(At(1, 13, 0))

\* The execution p, serving a booking request, takes a step of its handler.
BookingStep(p) ==
    /\ pc[p] \in {"idle", "create"} /\ pc'[p] \in {"create", "done"}
    /\ pc'[p] /= pc[p]
    /\ req'[p].handler \in BookingHandlers

\* C25: a booking request writes nothing before it is answered, and nothing
\* at all when its answer is a rejection; the step that answers with success
\* adds exactly one event, with the requested interval, to the calendar of
\* its script, and changes or removes no event that was there.
C25_RejectNothingAcceptOne ==
    [][\A p \in Procs : BookingStep(p) =>
        IF pc'[p] = "done" /\ result'[p].success
        THEN LET c == CalendarOf(req'[p].handler)
             IN  /\ \A d \in CalendarIds \ {c} : calendar'[d] = calendar[d]
                 /\ Removed(c) = {}
                 /\ Cardinality(Added(c)) = 1
                 /\ \A e \in Added(c) :
                        /\ e.start = RequestedStart(req'[p])
                        /\ e.end = RequestedEnd(req'[p])
        ELSE calendar' = calendar]_vars

\* C25 witness: a booking for 14:00 has been accepted next to the booking
\* 13:00-14:00 that was there before, and a request for 14:30 has been
\* refused as taken.
C25_Witness ==
    /\ \E e1, e2 \in calendar[CALENDAR_ID] :
            /\ e1.id < e2.id
            /\ e1.start = ParseDate(At(1, 13, 0))
            /\ e2.start = ParseDate(At(1, 14, 0))
            /\ \E p \in Procs :
                    /\ pc[p] = "done" /\ result[p].success
                    /\ result[p].eventId = Some(e2.id)
    /\ \E q \in Procs :
            /\ pc[q] = "done"
            /\ req[q].handler = "createBooking"
            /\ req[q].data.datetime = Some(At(1, 14, 30))
            /\ result[q].message = "This time slot is no longer available"

\* The execution p serves a createAdminBlock or blockTimeSlot request to its
\* answer.
BlockStep(p) ==
    /\ pc[p] = "idle" /\ pc'[p] = "done"
    /\ req'[p].handler \in {"createAdminBlock", "blockTimeSlot"}

\* What a refused block request was refused for: a caller who is not the
\* admin, a missing datetime, or a store call that failed.
BlockRefusal(r, res) ==
    \/ res.message = "Access denied"
            /\ r.handler = "createAdminBlock" /\ r.caller /= ADMIN_EMAIL
    \/ res.message = "Date and time are required"
            /\ r.handler = "createAdminBlock" /\ r.data.datetime = None
    \/ res.message = "Failed to create time block: " /\ r.handler = "createAdminBlock"
    \/ res.message = "Failed to block slot" /\ r.handler = "blockTimeSlot"

\* C26: createAdminBlock and blockTimeSlot never refuse a block because of
\* the events the calendar holds, and creating a block removes no event: a
\* refusal is for the caller, a missing datetime or a failed store call.  So
\* a block is created over a customer booking, which stays (the witness),
\* with one request served after another.
C26_BlocksBypassConflictCheck ==
    [][\A p \in Procs : BlockStep(p) =>
        /\ \A c \in CalendarIds : Removed(c) = {}
        /\ result'[p].message \notin SlotTakenMessages
        /\ ~result'[p].success => BlockRefusal(req'[p], result'[p])]_vars

\* C26 witness: the admin's block 13:00-15:00 has just been created over the
\* customer booking 13:00-14:00, which is still in the calendar.
C26_Witness ==
    \E p \in Procs :
        /\ pc[p] = "done"
        /\ req[p].handler = "createAdminBlock"
        /\ result[p].success
        /\ \E booking, block \in calendar[CALENDAR_ID] :
                /\ CustomerBooking(booking)
                /\ booking.start = ParseDate(At(1, 13, 0))
                /\ result[p].eventId = Some(block.id)
                /\ block.start = ParseDate(At(1, 13, 0))
                /\ block.end = ParseDate(At(1, 15, 0))
                /\ SlotOverlap(booking.start, booking.end, block.start, block.end)

(***************************************************************************)
(* The main backend asked for starts that getAvailableSlots never offers:  *)
(* 10:30, between two slots, and 20:00, after the last one; 10:00 and      *)
(* 11:00 are the slots on either side of 10:30.  One request is served     *)
(* after another.                                                          *)
(***************************************************************************)
UnofferedTimes == {At(1, 10, 0), At(1, 10, 30), At(1, 11, 0), At(1, 20, 0)}

UnofferedData ==
    {[NoData EXCEPT !.datetime = Some(dt), !.clientName = Some("Ann"),
                    !.clientEmail = Some("ann@example.com")] : dt \in UnofferedTimes}

NextUnoffered ==
    \E p \in Procs :
        /\ \A q \in Procs \ {p} : pc[q] = "idle"
        /\ \/ Return(p)
           \/ \E dateString \in DateStrings : getAvailableSlots(p, dateString)
           \/ \E data \in UnofferedData : createBooking(p, data)
           \/ createBooking_createEvent(p)

SpecUnoffered == Init /\ [][NextUnoffered]_vars

\* The calendar holds a booking that starts at 10:30 of the day.
BookedAtHalfPastTen(day) ==
    \E e \in calendar[CALENDAR_ID] :
        CustomerBooking(e) /\ e.start = ParseDate(At(day, 10, 30))

\* An answered availability request lists the slot at h:00 as unavailable.
ListedUnavailable(p, h) ==
    \E s \in Range(result[p].unavailableSlots) : s.value = SlotStartOf(req[p], h)

\* Once a booking at 10:30 is in the calendar, an availability answer for
\* its day lists the 10:00 and the 11:00 slot as unavailable.
HalfPastTenTakesTwoSlots ==
    \A p \in Procs :
        (AnsweredSlots(p) /\ BookedAtHalfPastTen(DayOf(req[p])))
        => ListedUnavailable(p, 10) /\ ListedUnavailable(p, 11)

\* C27: createBooking passes every complete request whose interval
\* [start, start + 60 min) overlaps no event, whether or not the start is on
\* the hourly grid or within 9:00-17:00; and with a booking at 10:30 in the
\* calendar, getAvailability lists both the 10:00 and the 11:00 slot as
\* unavailable.
C27_NotConfinedToOfferedSlots ==
    [][/\ \A p \in Procs : GuardChecked(p) =>
            (pc'[p] = "create"
                <=> ~ \E e \in calendar[CALENDAR_ID] : Taken(req'[p], e))
       /\ HalfPastTenTakesTwoSlots']_vars

\* C27 witness: the bookings accepted at 10:30 and at 20:00 are in the
\* calendar, and getAvailability has answered for their day.
C27_Witness ==
    /\ BookedAtHalfPastTen(1)
    /\ \E e \in calendar[CALENDAR_ID] :
            CustomerBooking(e) /\ e.start = ParseDate(At(1, 20, 0))
    /\ \E p \in Procs :
            /\ AnsweredSlots(p) /\ DayOf(req[p]) = 1
            /\ ListedUnavailable(p, 10) /\ ListedUnavailable(p, 11)

\* What the entry points answer to a request they cannot dispatch.
DispatchErrors ==
    {"Invalid action: ", "Invalid action", "Server error: ",
     "Unknown action", "SyntaxError: "}

\* The step answers the request of p at once with a dispatch error, writes
\* nothing, and leaves p holding nothing read from a store.
RejectedUnread(p) ==
    /\ pc'[p] = "done"
    /\ ~result'[p].success
    /\ result'[p].message \in DispatchErrors
    /\ calendar' = calendar /\ nextId' = nextId /\ sheet' = sheet
    /\ local' = local

\* C28: doGet of the main backend with an unknown action, and doPost of
\* either calendar backend with an action outside its dispatch table or
\* with a body JSON.parse rejects, answer with an error result in one step
\* that makes no store call: the calendars are as before, and the answer is
\* the dispatch error, never the failure of a store call.
C28_UndispatchedNoEffect ==
    [][\A p \in Procs : \A caller \in Callers :
        /\ (\E dateString \in DateStrings : doGet(p, caller, "unknown", dateString))
                => RejectedUnread(p)
        /\ (doPost(p, caller, Unparsable) \/ doPost(p, caller, Body("unknown", NoData)))
                => RejectedUnread(p)
        /\ (simple_doPost(p, caller, Unparsable)
                \/ simple_doPost(p, caller, Body("unknown", NoData)))
                => RejectedUnread(p)]_vars

\* C28 witness: with an event in the calendar, a GET with an unknown action
\* has been answered 'Invalid action: '.
C28_Witness ==
    /\ calendar[CALENDAR_ID] /= {}
    /\ \E p \in Procs :
            /\ pc[p] = "done"
            /\ req[p].handler = "doGet"
            /\ ~result[p].success
            /\ result[p].message = "Invalid action: "

(***************************************************************************)
(* The services backend (src/unnamed/part_001) serving its requests        *)
(* concurrently: an execution that has answered holds its response while   *)
(* other requests are served, as a client holds the listing it was sent.   *)
(***************************************************************************)
NextServices ==
    \E p \in Procs :
        \/ Return(p)
        \/ \E params \in GetParams : services_doGet(p, params)
        \/ \E params \in PostParams : services_doPost(p, params)

SpecServices == Init /\ [][NextServices]_vars

\* The execution p answers a request for `action` of the services backend
\* in this step, having run to its end.
ServiceStep(p, action) ==
    /\ pc[p] = "idle" /\ pc'[p] = "done"
    /\ req'[p].handler \in ServiceEntries
    /\ req'[p].data.action = Some(action)
    /\ result'[p].success

\* The row number a service request names, when it names a row of the sheet
\* below the header.
RowOf(r) == Val(r.data.rowId).n
NamesServiceRow(r) == RowOf(r) \in 2 .. Len(getServiceSheet(sheet))

\* The first cell of row i of the sheet: blank below the last row that holds
\* data.
RowAt(rows, i) == IF i \in DOMAIN rows THEN rows[i] ELSE ""

\* The listing getServices returns: one entry per row below the header, in
\* sheet order, the entry of row i carrying the id i.
ListsByPosition(p) ==
    LET services == result'[p].services
    IN  /\ Len(services) = Len(sheet') - 1
        /\ \A i \in DOMAIN services :
                /\ services[i].rowId = i + 1
                /\ services[i].name = sheet'[i + 1]

\* deleteService(r) removes the row that is at position r now: the rows
\* above stay, and what getServices listed under an id above r it lists
\* under that id less one afterwards.
DeletesByPosition(p) ==
    LET rows == getServiceSheet(sheet)
        r == RowOf(req'[p])
    IN  /\ \A i \in 1 .. (r - 1) : RowAt(sheet', i) = rows[i]
        /\ \A before \in Range(getServices(rows)) :
                before.rowId > r =>
                    \E after \in Range(getServices(sheet')) :
                        /\ after.rowId = before.rowId - 1
                        /\ after.name = before.name

\* updateService(r) writes the row that is at position r now and no other.
UpdatesByPosition(p) ==
    LET rows == getServiceSheet(sheet)
        r == RowOf(req'[p])
    IN  /\ Len(sheet') = Len(rows)
        /\ sheet'[r] = Val(req'[p].data.name)
        /\ \A i \in DOMAIN rows : i /= r => sheet'[i] = rows[i]

\* C29: a service's id is the position of its row: getServices lists the
\* rows below the header in sheet order under the distinct ids 2..n+1;
\* deleteService(r), r the id of a listed row, removes the row now at
\* position r and every service below it is listed under its id less one
\* afterwards; updateService(r) writes the row now at position r.  So a
\* request made with an id from a listing taken before another delete acts
\* on the service that has moved to that position (the witness).
C29_IdsArePositions ==
    [][\A p \in Procs :
        /\ ServiceStep(p, "getServices") => ListsByPosition(p)
        /\ (ServiceStep(p, "deleteService") /\ NamesServiceRow(req'[p]))
                => DeletesByPosition(p)
        /\ (ServiceStep(p, "updateService") /\ NamesServiceRow(req'[p]))
                => UpdatesByPosition(p)]_vars

\* C29 witness: one client still holds the listing that names Cut under id
\* 2 and Dye under id 3; since then deleteService(2) has been served, and
\* row 2 of the sheet now holds Dye: an update or delete the client sends
\* for id 2 reaches Dye.
C29_Witness ==
    \E p, q \in Procs :
        /\ pc[p] = "done"
        /\ req[p].data.action = Some("getServices")
        /\ result[p].services = <<[rowId |-> 2, name |-> "Cut"],
                                   [rowId |-> 3, name |-> "Dye"]>>
        /\ pc[q] = "done"
        /\ req[q].data.action = Some("deleteService")
        /\ req[q].data.rowId = Some(Num(2))
        /\ result[q].success
        /\ sheet = <<HEADERS, "Dye">>

====
